---- MODULE Spec2Model ----
(***************************************************************************)
(* Velcro: handler resolution and execution engine.                        *)
(*                                                                         *)
(* The module models                                                       *)
(*   - HandlerExecutor.execute and its command / external / velcro /      *)
(*     function variants (handlers/executor.ts), the runner subprocess of  *)
(*     velcro handlers (handlers/velcro-runner.ts) and the matcher check;  *)
(*   - the statistics manager (handlers/stats.ts), called by the finally   *)
(*     block of execute, alone and with a second process over its file;    *)
(*   - the configured handler list and the commands that change it         *)
(*     (config/index.ts, cli/commands/serve.ts);                           *)
(*   - HandlerResolver.resolveHandlers over the session override store     *)
(*     (session/state.ts) and the project configuration                    *)
(*     (config/project-config.ts);                                         *)
(*   - the POST /hooks route of the HTTP server (server/http-server.ts),   *)
(*     which runs the resolved handlers concurrently and merges their      *)
(*     results.                                                            *)
(*                                                                         *)
(* Optional (possibly undefined) JavaScript values are sequences of length *)
(* at most one: None is undefined, Some(x) is the value x.  Text (stdout,  *)
(* stderr, outputs) is a sequence of tokens, so that trim, startsWith,     *)
(* JSON.parse and join are computed and not assumed.                       *)
(***************************************************************************)
EXTENDS Integers, Sequences, FiniteSets, TLC

VARIABLES
    invocation,     \* executor: the in-flight call of execute, or None
    result,         \* executor: the settled promise of the last finished call
    child,          \* executor: what the child of that call did (exit code, output),
                    \*           or what the code of a function handler returned
    stats,          \* StatsManager.stats: handler name -> HandlerStats
    statsFile,      \* contents of handler-stats.json
    handlers,       \* ConfigManager.config.handlers (global definitions, in order)
    sessions,       \* SessionStateManager.sessions: session id -> state
    projectConfig,  \* ProjectConfigManager.projectConfig (None is null)
    resolved,       \* resolver: the last call of resolveHandlers and its return value
    request,        \* POST /hooks: the request being processed
    history         \* the calls made so far to the component under study, in order

vars == <<invocation, result, child, stats, statsFile, handlers, sessions,
          projectConfig, resolved, request, history>>

----------------------------------------------------------------------------
(* Optional values *)

None == << >>
Some(x) == <<x>>
IsSome(o) == o # None
Get(o) == o[1]

----------------------------------------------------------------------------
(* Bounds of the model *)

\* largest wall-clock duration (ms) of one invocation
MaxDuration == 1
\* number of calls of execute in one behaviour of the executor
MaxInvocations == 1
\* number of calls logged in one behaviour of the statistics manager or of
\* the session store
MaxCalls == 3
\* largest number of entries of the configured handler list
MaxHandlers == 3
\* largest exit status a child process is given beyond the three named ones
MaxExtraExit == 1

----------------------------------------------------------------------------
(* constants.ts *)

EXIT_CODE_SUCCESS == 0
EXIT_CODE_ERROR == 1
EXIT_CODE_BLOCK == 2

----------------------------------------------------------------------------
(* Text: sequences of tokens *)

Tok(t, k, v) == [t |-> t, k |-> k, v |-> v]
WS == Tok("ws", "", "")
LBrace == Tok("{", "", "")
RBrace == Tok("}", "", "")
Word(w) == Tok("word", "", w)
Member(k, v) == Tok("member", k, v)

EmptyText == << >>
TextOf(w) == <<Word(w)>>

RECURSIVE trimStart(_)
trimStart(s) ==
    IF s # << >> /\ Head(s) = WS THEN trimStart(Tail(s)) ELSE s

RECURSIVE trimEnd(_)
trimEnd(s) ==
    IF s # << >> /\ s[Len(s)] = WS THEN trimEnd(SubSeq(s, 1, Len(s) - 1)) ELSE s

\* String.prototype.trim
trim(s) == trimEnd(trimStart(s))

\* String.prototype.startsWith('{')
startsWithBrace(s) == s # << >> /\ Head(s) = LBrace

\* a non-empty string is truthy
TruthyText(s) == s # << >>

\* the text is the serialisation of a JSON object: '{' members '}'
IsJSONObject(s) ==
    /\ Len(s) >= 2
    /\ s[1] = LBrace
    /\ s[Len(s)] = RBrace
    /\ \A i \in 2..(Len(s) - 1) : s[i].t = "member"

\* the value of key k in the object text s: the last member with that key wins
Lookup(s, k) ==
    LET idx == {i \in 2..(Len(s) - 1) : s[i].k = k}
    IN  IF idx = {} THEN None
        ELSE Some(s[CHOOSE i \in idx : \A j \in idx : j <= i].v)

\* the other keys of the object, as a set of members
OtherMembers(s) ==
    {[k |-> s[i].k, v |-> s[i].v] : i \in {j \in 2..(Len(s) - 1) : s[j].k \notin {"decision", "reason"}}}

\* JSON.parse of a text that starts with '{': Some(object), or None when it throws
JSONparse(s) ==
    IF IsJSONObject(s)
    THEN Some([decision |-> Lookup(s, "decision"),
               reason   |-> Lookup(s, "reason"),
               rest     |-> OtherMembers(s)])
    ELSE None

----------------------------------------------------------------------------
(* Events and handler definitions *)

HookTypes == {"PreToolUse", "UserPromptSubmit"}
ToolNames == {"Bash", "Edit"}
SessionIds == {"s1", "s2"}

\* HookData: the tool-bearing hooks carry tool_name
HookDatas ==
    [hook_event_name : {"PreToolUse"}, session_id : SessionIds,
     cwd : {None}, tool_name : {Some(t) : t \in ToolNames}]
    \cup
    [hook_event_name : {"UserPromptSubmit"}, session_id : SessionIds,
     cwd : {None}, tool_name : {None}]

\* new RegExp(matcher) does not throw: "[" is an unterminated character
\* class, "*.ts" and "*" have nothing to repeat
RegExpCompiles(matcher) == matcher \notin {"[", "*.ts", "*"}

\* new RegExp(matcher).test(tool), for the patterns of the model; test
\* searches the tool name for the pattern, anchors bind it to the ends
RegExpTest(matcher, tool) ==
    CASE matcher = "Bash"       -> tool \in {"Bash", "BashOutput"}
      [] matcher = "^Bash$"     -> tool = "Bash"
      [] matcher = "Edit|Write" -> tool \in {"Edit", "Write"}
      [] matcher = ".*"         -> TRUE
      [] OTHER                  -> FALSE

\* the matcher of a handler definition: absent, or a pattern
Matchers ==
    {None, Some(""), Some("*"), Some("Bash"), Some("^Bash$"), Some("Edit|Write"),
     Some(".*"), Some("["), Some("*.ts")}

\* a buggy variant of matchesFilter: an invalid pattern does not match
matchesFilter_FailClosed(matcher, hookData) ==
    IF IsSome(hookData.tool_name) /\ Get(hookData.tool_name) # ""
    THEN IF matcher = "*" \/ matcher = ""
         THEN TRUE
         ELSE RegExpCompiles(matcher) /\ RegExpTest(matcher, Get(hookData.tool_name))
    ELSE matcher = "" \/ matcher = "*"

\* a buggy variant of matchesFilter: an event without a tool name is matched
\* by every pattern
matchesFilter_NonToolMatches(matcher, hookData) ==
    IF IsSome(hookData.tool_name) /\ Get(hookData.tool_name) # ""
    THEN IF matcher = "*" \/ matcher = ""
         THEN TRUE
         ELSE IF RegExpCompiles(matcher)
              THEN RegExpTest(matcher, Get(hookData.tool_name))
              ELSE TRUE
    ELSE TRUE

matchesFilter(matcher, hookData) ==
    IF IsSome(hookData.tool_name) /\ Get(hookData.tool_name) # ""
    THEN IF matcher = "*" \/ matcher = ""
         THEN TRUE
         ELSE IF RegExpCompiles(matcher)
              THEN RegExpTest(matcher, Get(hookData.tool_name))
              ELSE TRUE
    ELSE matcher = "" \/ matcher = "*"

\* matchesFilter, catch block: the diagnostic written by console.error, or
\* None when nothing is written
matchesFilterDiagnostic(matcher, hookData) ==
    IF /\ IsSome(hookData.tool_name) /\ Get(hookData.tool_name) # ""
       /\ ~(matcher = "*" \/ matcher = "")
       /\ ~RegExpCompiles(matcher)
    THEN Some("Invalid matcher regex: " \o matcher)
    ELSE None

----------------------------------------------------------------------------
(* handlers/stats.ts *)

RECURSIVE GCD(_, _)
GCD(a, b) == IF b = 0 THEN a ELSE GCD(b, a % b)

\* the quotient n / d of two naturals (d > 0), as a reduced fraction
Frac(n, d) == LET g == GCD(n, d) IN <<n \div g, d \div g>>

NewStats ==
    [executions |-> 0, failures |-> 0, totalDuration |-> 0,
     avgDuration |-> Frac(0, 1), successRate |-> Frac(0, 1), lastError |-> None]

\* a buggy variant of recordExecution: the success rate is computed before
\* the failure is counted
recordExecution_RateBeforeFailure(st, handlerName, duration, success, error) ==
    LET old == IF handlerName \in DOMAIN st THEN st[handlerName] ELSE NewStats
        e   == old.executions + 1
        d   == old.totalDuration + duration
        f   == IF success THEN old.failures ELSE old.failures + 1
        new == [executions    |-> e,
                failures      |-> f,
                totalDuration |-> d,
                avgDuration   |-> Frac(d, e),
                successRate   |-> Frac((e - old.failures) * 100, e),
                lastError     |-> IF success THEN old.lastError
                                  ELSE IF IsSome(error) /\ Get(error) # ""
                                       THEN error ELSE Some("Unknown error")]
    IN  (handlerName :> new) @@ st

\* StatsManager.recordExecution, up to the call of saveStats: the new map.
\* lastExecution (a wall-clock timestamp) is left out.
recordExecution(st, handlerName, duration, success, error) ==
    LET old == IF handlerName \in DOMAIN st THEN st[handlerName] ELSE NewStats
        e   == old.executions + 1
        d   == old.totalDuration + duration
        f   == IF success THEN old.failures ELSE old.failures + 1
        new == [executions    |-> e,
                failures      |-> f,
                totalDuration |-> d,
                avgDuration   |-> Frac(d, e),
                successRate   |-> Frac((e - f) * 100, e),
                lastError     |-> IF success THEN old.lastError
                                  ELSE IF IsSome(error) /\ Get(error) # ""
                                       THEN error ELSE Some("Unknown error")]
    IN  (handlerName :> new) @@ st

\* StatsManager.resetStats, up to the call of saveStats: the entry of the
\* named handler is deleted, or every entry when no name is given
resetStats(st, handlerName) ==
    IF IsSome(handlerName) /\ Get(handlerName) # ""
    THEN [n \in (DOMAIN st) \ {Get(handlerName)} |-> st[n]]
    ELSE << >>

\* StatsManager.saveStats: the contents of the file after writeFileSync,
\* which either writes the map or throws and leaves the file
saveStats(st, file, writeOk) == IF writeOk THEN st ELSE file

\* the number of executions recorded in a statistics map
RECURSIVE SumExecutions(_, _)
SumExecutions(st, names) ==
    IF names = {} THEN 0
    ELSE LET n == CHOOSE x \in names : TRUE
         IN  st[n].executions + SumExecutions(st, names \ {n})

TotalExecutions(st) == SumExecutions(st, DOMAIN st)

----------------------------------------------------------------------------
(* handlers/executor.ts *)

\* the result object execute starts from
NewResult(handler) ==
    [handler |-> handler.name, success |-> FALSE, output |-> None,
     stderr |-> None, exitCode |-> None, response |-> None,
     blockExecution |-> FALSE, error |-> None, duration |-> 0]

\* code || 0
CodeOrZero(code) == IF code = None THEN 0 ELSE Get(code)

\* the 'exit' listeners start by storing the exit code and the trimmed output
captureOutput(r, code, stdout, stderr) ==
    [r EXCEPT !.exitCode = Some(CodeOrZero(code)),
              !.output = Some(trim(stdout)),
              !.stderr = Some(trim(stderr))]

\* the stderr kept by a JSON "block" response
BlockStderr(stderr, reason) ==
    LET noReason == reason = None \/ Get(reason) = ""
    IN  IF noReason /\ TruthyText(stderr) THEN stderr
        ELSE IF TruthyText(stderr) /\ (noReason \/ stderr # TextOf(Get(reason))) THEN stderr
        ELSE EmptyText

\* the JSON response of a result whose output has been captured, or None
ParsedOutput(r) ==
    LET out == Get(r.output)
    IN  IF TruthyText(out) /\ startsWithBrace(out) THEN JSONparse(out) ELSE None

\* a buggy variant of commandParseResponse: the response is parsed and
\* captured, its decision is not looked at
commandParseResponse_IgnoreDecision(r) ==
    IF ParsedOutput(r) = None THEN r ELSE [r EXCEPT !.response = ParsedOutput(r)]

\* executeCommandHandler, 'exit' listener: "Try to parse JSON response"
commandParseResponse(r) ==
    LET parsed == ParsedOutput(r)
    IN  IF parsed = None THEN r
        ELSE IF Get(parsed).decision = Some("block")
             THEN [r EXCEPT !.response = parsed,
                            !.blockExecution = TRUE,
                            !.success = FALSE,
                            !.stderr = Some(BlockStderr(Get(r.stderr), Get(parsed).reason)),
                            !.output = Some(EmptyText)]
        ELSE IF Get(parsed).decision = Some("approve")
             THEN [r EXCEPT !.response = parsed,
                            !.success = TRUE,
                            !.output = Some(EmptyText)]
        ELSE [r EXCEPT !.response = parsed]

\* a buggy variant of commandExitCode: the exit code is applied only when
\* the JSON response has not decided
commandExitCode_JsonWins(r, code) ==
    IF r.response # None /\ Get(r.response).decision = Some("approve")
    THEN r
    ELSE IF code = Some(EXIT_CODE_BLOCK)
         THEN [r EXCEPT !.blockExecution = TRUE, !.success = FALSE]
         ELSE IF code # Some(0) /\ code # None
              THEN [r EXCEPT !.success = FALSE]
              ELSE IF r.response = None THEN [r EXCEPT !.success = TRUE] ELSE r

\* a buggy variant of commandExitCode: exit code 2 sets blockExecution and
\* leaves success as the JSON response set it
commandExitCode_BlockKeepsSuccess(r, code) ==
    IF code = Some(EXIT_CODE_BLOCK)
    THEN [r EXCEPT !.blockExecution = TRUE]
    ELSE IF code # Some(0) /\ code # None
         THEN [r EXCEPT !.success = FALSE]
         ELSE IF r.response = None
              THEN [r EXCEPT !.success = TRUE]
              ELSE r

\* a buggy variant of commandExitCode: an exit code other than 0 and 2 fails
\* the result only when the JSON response has not decided
commandExitCode_ErrorKeepsApprove(r, code) ==
    IF code = Some(EXIT_CODE_BLOCK)
    THEN [r EXCEPT !.blockExecution = TRUE, !.success = FALSE]
    ELSE IF r.response = None
         THEN [r EXCEPT !.success = (code = Some(0) \/ code = None)]
         ELSE r

\* executeCommandHandler, 'exit' listener: "Exit code handling"
commandExitCode(r, code) ==
    IF code = Some(EXIT_CODE_BLOCK)
    THEN [r EXCEPT !.blockExecution = TRUE, !.success = FALSE]
    ELSE IF code # Some(0) /\ code # None
         THEN [r EXCEPT !.success = FALSE]
         ELSE IF r.response = None
              THEN [r EXCEPT !.success = TRUE]
              ELSE r

\* executeCommandHandler: the 'exit' listener of the child
commandOnExit(r, code, stdout, stderr) ==
    commandExitCode(commandParseResponse(captureOutput(r, code, stdout, stderr)), code)

\* executeExternalHandler, 'exit' listener: "Try to parse JSON response"
externalParseResponse(r) ==
    LET parsed == ParsedOutput(r)
    IN  IF parsed = None THEN r
        ELSE IF Get(parsed).decision = Some("block")
             THEN [r EXCEPT !.response = parsed,
                            !.blockExecution = TRUE,
                            !.success = FALSE,
                            !.stderr = Some(BlockStderr(Get(r.stderr), Get(parsed).reason)),
                            !.output = Some(EmptyText)]
        ELSE IF Get(parsed).decision = Some("approve")
             THEN [r EXCEPT !.response = parsed,
                            !.success = TRUE,
                            !.output = Some(EmptyText)]
        ELSE [r EXCEPT !.response = parsed]

\* executeExternalHandler, 'exit' listener: "Exit code handling"
externalExitCode(r, code) ==
    IF code = Some(EXIT_CODE_BLOCK)
    THEN [r EXCEPT !.blockExecution = TRUE, !.success = FALSE]
    ELSE IF code # Some(0) /\ code # None
         THEN [r EXCEPT !.success = FALSE]
         ELSE IF r.response = None
              THEN [r EXCEPT !.success = TRUE]
              ELSE r

\* executeExternalHandler: the 'exit' listener of the child
externalOnExit(r, code, stdout, stderr) ==
    externalExitCode(externalParseResponse(captureOutput(r, code, stdout, stderr)), code)

\* executeVelcroHandler: the 'exit' listener of the runner subprocess; the
\* captured output is stored and not parsed
velcroOnExit(r, code, stdout, stderr) ==
    LET r1 == captureOutput(r, code, stdout, stderr)
    IN  IF code = Some(EXIT_CODE_SUCCESS) \/ code = None
        THEN [r1 EXCEPT !.success = TRUE]
        ELSE IF code = Some(EXIT_CODE_BLOCK)
             THEN [r1 EXCEPT !.blockExecution = TRUE, !.success = FALSE]
             ELSE [r1 EXCEPT !.success = FALSE]

\* velcro-runner.ts: how the handler code ends.  It returns, it throws an
\* error of its own, or it calls process.exit(code); code is None for a
\* call without an argument
Terminations ==
    {[kind |-> "return", code |-> None], [kind |-> "throw", code |-> None],
     [kind |-> "exit", code |-> None]}
    \cup
    {[kind |-> "exit", code |-> Some(n)] : n \in 0..(EXIT_CODE_BLOCK + MaxExtraExit)}

\* velcro-runner.ts: what the awaited handler function throws, or None when
\* it returns.  The overridden process.exit throws an error whose exitCode
\* property is its argument
runnerThrown(termination) ==
    CASE termination.kind = "return" -> None
      [] termination.kind = "throw"  -> Some([isExit |-> FALSE, exitCode |-> None])
      [] termination.kind = "exit"   -> Some([isExit |-> TRUE, exitCode |-> termination.code])

\* velcro-runner.ts, catch block: the status the runner exits with for a
\* thrown error; exitCode || EXIT_CODE.ERROR
runnerCatch(error) ==
    IF error.isExit /\ error.exitCode # None
    THEN IF Get(error.exitCode) = 0 THEN EXIT_CODE_ERROR ELSE Get(error.exitCode)
    ELSE EXIT_CODE_ERROR

\* velcro-runner.ts: the exit status of the runner subprocess
runnerExitStatus(termination) ==
    IF runnerThrown(termination) = None
    THEN EXIT_CODE_SUCCESS
    ELSE runnerCatch(Get(runnerThrown(termination)))

\* a buggy variant of childOnError: a spawn failure blocks
childOnError_Blocks(r, message) ==
    [r EXCEPT !.error = Some(message), !.success = FALSE, !.blockExecution = TRUE]

\* the 'error' listener of the child (spawn failure)
childOnError(r, message) ==
    [r EXCEPT !.error = Some(message), !.success = FALSE]

\* the catch block of execute: the thrown errors carry no blockExecution property
executeCatch(r, message) ==
    [r EXCEPT !.error = Some(message), !.success = FALSE]

\* what the code of a function handler returns: undefined, a string, or an
\* object with the status, blocked, error and message properties it sets; the
\* modelled objects have no reason and no output property
FunctionReturns ==
    [kind : {"undefined", "string"}, status : {None}, blocked : {None},
     error : {None}, message : {None}, reason : {None}]
    \cup
    [kind : {"object"}, status : {None, Some("blocked"), Some("error")},
     blocked : {None, Some(TRUE)}, error : {None, Some(TRUE)},
     message : {None, Some("M")}, reason : {None}]

\* functionResult.message || functionResult.reason || ''
messageOrReason(ret) ==
    IF ret.message # None /\ Get(ret.message) # "" THEN Get(ret.message)
    ELSE IF ret.reason # None /\ Get(ret.reason) # "" THEN Get(ret.reason)
    ELSE ""

\* functionResult.status === 'blocked' || functionResult.blocked === true
blockedFlag(ret) ==
    ret.kind = "object" /\ (ret.status = Some("blocked") \/ ret.blocked = Some(TRUE))

\* functionResult.status === 'error' || functionResult.error === true
errorFlag(ret) ==
    ret.kind = "object" /\ (ret.status = Some("error") \/ ret.error = Some(TRUE))

\* a buggy variant of functionOnReturn: a blocking return value keeps the
\* success the return itself gave
functionOnReturn_BlockKeepsSuccess(r, ret) ==
    LET r1 == [r EXCEPT !.response = IF ret.kind = "undefined" THEN None ELSE Some(ret),
                        !.success = TRUE]
        r2 == IF blockedFlag(ret)
              THEN [r1 EXCEPT !.blockExecution = TRUE,
                              !.stderr = Some(IF messageOrReason(ret) = "" THEN EmptyText
                                              ELSE TextOf(messageOrReason(ret)))]
              ELSE r1
    IN  IF errorFlag(ret)
        THEN [r2 EXCEPT !.success = FALSE, !.error = Some(messageOrReason(ret))]
        ELSE r2

\* a buggy variant of functionOnReturn: the error flags are not looked at
functionOnReturn_IgnoreError(r, ret) ==
    LET r1 == [r EXCEPT !.response = IF ret.kind = "undefined" THEN None ELSE Some(ret),
                        !.success = TRUE]
    IN  IF blockedFlag(ret)
        THEN [r1 EXCEPT !.blockExecution = TRUE,
                        !.success = FALSE,
                        !.stderr = Some(IF messageOrReason(ret) = "" THEN EmptyText
                                        ELSE TextOf(messageOrReason(ret)))]
        ELSE r1

\* executeFunctionHandler after the handler code returned ret: the return
\* value is the response, success is true, then the blocked flags, then the
\* error flags, then the message are applied
functionOnReturn(r, ret) ==
    LET r1 == [r EXCEPT !.response = IF ret.kind = "undefined" THEN None ELSE Some(ret),
                        !.success = TRUE]
        r2 == IF blockedFlag(ret)
              THEN [r1 EXCEPT !.blockExecution = TRUE,
                              !.success = FALSE,
                              !.stderr = Some(IF messageOrReason(ret) = "" THEN EmptyText
                                              ELSE TextOf(messageOrReason(ret)))]
              ELSE r1
        r3 == IF errorFlag(ret)
              THEN [r2 EXCEPT !.success = FALSE, !.error = Some(messageOrReason(ret))]
              ELSE r2
    IN  IF ret.kind = "object" /\ ret.message # None /\ Get(ret.message) # ""
        THEN [r3 EXCEPT !.output = Some(TextOf(Get(ret.message)))]
        ELSE r3

\* executeFunctionHandler, catch: the handler code threw
functionOnThrow(r, message) ==
    [r EXCEPT !.error = Some(message), !.success = FALSE]

\* the handler is skipped: it has a (truthy) matcher that does not match
skipped(handler, hookData) ==
    /\ IsSome(handler.matcher)
    /\ Get(handler.matcher) # ""
    /\ ~matchesFilter(Get(handler.matcher), hookData)

\* the error thrown by execute before any process is spawned, or None
configurationError(handler) ==
    CASE handler.type = "command" ->
            IF handler.command = None \/ Get(handler.command) = ""
            THEN Some("Command handler " \o handler.name \o " has no command")
            ELSE None
      [] handler.type = "external" ->
            IF handler.command = None \/ Get(handler.command) = ""
            THEN Some("External handler " \o handler.name \o " has no command")
            ELSE None
      [] handler.type = "velcro" ->
            IF handler.code = None \/ Get(handler.code) = ""
            THEN Some("Velcro handler " \o handler.name \o " has no code")
            ELSE None
      [] handler.type = "script" ->
            IF handler.script = None \/ Get(handler.script) = ""
            THEN Some("Script handler " \o handler.name \o " has no script path")
            ELSE None
      [] handler.type = "function" ->
            IF handler.code = None \/ Get(handler.code) = ""
            THEN Some("Function handler " \o handler.name \o " has no code")
            ELSE None
      [] OTHER -> Some("Unknown handler type: " \o handler.type)

\* the 'exit' listener of the variant the handler's type selects
onExit(handler, r, code, stdout, stderr) ==
    CASE handler.type = "command"  -> commandOnExit(r, code, stdout, stderr)
      [] handler.type = "external" -> externalOnExit(r, code, stdout, stderr)
      [] handler.type = "velcro"   -> velcroOnExit(r, code, stdout, stderr)

\* what a call of execute ends with when it spawns no process, or None
\* when it spawns the child and waits for it
executeSync(handler, hookData) ==
    IF skipped(handler, hookData)
    THEN Some([NewResult(handler) EXCEPT !.success = TRUE])
    ELSE IF IsSome(configurationError(handler))
         THEN Some(executeCatch(NewResult(handler), Get(configurationError(handler))))
         ELSE None

----------------------------------------------------------------------------
(* The matcher check of execute, applied to one handler and one event *)

\* the tool names of the events handed to the matcher check; "" is a
\* tool_name property without a name
MatchToolNames == {"Bash", "BashOutput", "Edit", ""}

\* the events: tool hooks with and without a tool name, and other hooks
MatchHookDatas ==
    [hook_event_name : {"PreToolUse", "PostToolUse"}, session_id : {"s1"},
     cwd : {None}, tool_name : {None} \cup {Some(t) : t \in MatchToolNames}]
    \cup
    [hook_event_name : {"UserPromptSubmit", "Stop"}, session_id : {"s1"},
     cwd : {None}, tool_name : {None}]

\* the handlers: one definition per matcher
MatchHandlers ==
    [name : {"h1"}, enabled : {TRUE}, hooks : {{"PreToolUse"}},
     type : {"command"}, command : {Some("cmd")}, matcher : Matchers]

\* execute, "Check if handler should run based on matcher": the call is
\* logged with whether the handler goes on to run and what console.error got
CheckMatcher ==
    /\ invocation # None
    /\ history = << >>
    /\ LET h  == Get(invocation).handler
           hd == Get(invocation).hookData
       IN  history' = <<[op         |-> "matchesFilter",
                         matches    |-> ~skipped(h, hd),
                         diagnostic |-> IF IsSome(h.matcher)
                                        THEN matchesFilterDiagnostic(Get(h.matcher), hd)
                                        ELSE None]>>
    /\ UNCHANGED <<invocation, result, child, stats, statsFile, handlers, sessions,
                   projectConfig, resolved, request>>

InitMatch ==
    /\ invocation \in {Some([handler |-> h, hookData |-> hd]) :
                          h \in MatchHandlers, hd \in MatchHookDatas}
    /\ result = None
    /\ child = None
    /\ stats = << >>
    /\ statsFile = << >>
    /\ handlers = << >>
    /\ sessions = << >>
    /\ projectConfig = None
    /\ resolved = None
    /\ request = None
    /\ history = << >>

NextMatch == CheckMatcher

SpecMatch == InitMatch /\ [][NextMatch]_vars

----------------------------------------------------------------------------
(* The statistics manager as a state machine *)

StatsHandlerNames == {"h1", "h2"}

StatsFrame ==
    UNCHANGED <<invocation, result, child, handlers, sessions, projectConfig,
                resolved, request>>

\* statsManager.recordExecution(handlerName, duration, success, error)
RecordExecution ==
    /\ Len(history) < MaxCalls
    /\ \E n \in StatsHandlerNames, d \in 0..MaxDuration, ok \in BOOLEAN, w \in BOOLEAN :
        /\ stats' = recordExecution(stats, n, d, ok, IF ok THEN None ELSE Some("boom"))
        /\ statsFile' = saveStats(stats', statsFile, w)
        /\ history' = Append(history, [op |-> "recordExecution", handlerName |-> Some(n),
                                       duration |-> d, success |-> ok])
        /\ StatsFrame

\* statsManager.resetStats(handlerName?)
ResetStats ==
    /\ Len(history) < MaxCalls
    /\ \E n \in {None} \cup {Some(x) : x \in StatsHandlerNames}, w \in BOOLEAN :
        /\ stats' = resetStats(stats, n)
        /\ statsFile' = saveStats(stats', statsFile, w)
        /\ history' = Append(history, [op |-> "resetStats", handlerName |-> n,
                                       duration |-> 0, success |-> TRUE])
        /\ StatsFrame

InitStats ==
    /\ invocation = None
    /\ result = None
    /\ child = None
    /\ stats = << >>
    /\ statsFile = << >>
    /\ handlers = << >>
    /\ sessions = << >>
    /\ projectConfig = None
    /\ resolved = None
    /\ request = None
    /\ history = << >>

NextStats ==
    \/ RecordExecution
    \/ ResetStats

SpecStats == InitStats /\ [][NextStats]_vars

----------------------------------------------------------------------------
(* Two processes over one handler-stats.json: the server, whose StatsManager
   loaded the file when the process started and keeps its map in stats, and
   CLI commands, each a process of its own whose StatsManager loads the
   file, makes one call and writes the file.  A CLI command is taken as one
   step (load, call, write), every write succeeds *)

\* StatsManager constructor of a new process: loadStats reads the file
loadStats(file) == file

\* the server records an execution: its map is updated and written
ServerRecordExecution ==
    /\ Len(history) < MaxCalls
    /\ \E n \in StatsHandlerNames, d \in 0..MaxDuration, ok \in BOOLEAN :
        /\ stats' = recordExecution(stats, n, d, ok, IF ok THEN None ELSE Some("boom"))
        /\ statsFile' = saveStats(stats', statsFile, TRUE)
        /\ history' = Append(history, [op |-> "recordExecution", handlerName |-> Some(n),
                                       duration |-> d, success |-> ok, by |-> "server"])
        /\ StatsFrame

\* monitor reset [handler] in a CLI process
CliMonitorReset ==
    /\ Len(history) < MaxCalls
    /\ \E n \in {None} \cup {Some(x) : x \in StatsHandlerNames} :
        /\ statsFile' = saveStats(resetStats(loadStats(statsFile), n), statsFile, TRUE)
        /\ history' = Append(history, [op |-> "resetStats", handlerName |-> n,
                                       duration |-> 0, success |-> TRUE, by |-> "cli"])
        /\ UNCHANGED stats
        /\ StatsFrame

\* execute <handler> in a CLI process: the executor records the execution
CliExecute ==
    /\ Len(history) < MaxCalls
    /\ \E n \in StatsHandlerNames, d \in 0..MaxDuration, ok \in BOOLEAN :
        /\ statsFile' = saveStats(recordExecution(loadStats(statsFile), n, d, ok,
                                                  IF ok THEN None ELSE Some("boom")),
                                  statsFile, TRUE)
        /\ history' = Append(history, [op |-> "recordExecution", handlerName |-> Some(n),
                                       duration |-> d, success |-> ok, by |-> "cli"])
        /\ UNCHANGED stats
        /\ StatsFrame

\* the server starts on an empty file
InitSharedStats ==
    /\ invocation = None
    /\ result = None
    /\ child = None
    /\ statsFile = << >>
    /\ stats = loadStats(statsFile)
    /\ handlers = << >>
    /\ sessions = << >>
    /\ projectConfig = None
    /\ resolved = None
    /\ request = None
    /\ history = << >>

NextSharedStats ==
    \/ ServerRecordExecution
    \/ CliMonitorReset
    \/ CliExecute

SpecSharedStats == InitSharedStats /\ [][NextSharedStats]_vars

----------------------------------------------------------------------------
(* The executor as a state machine: one call of execute at a time *)

\* handler definitions handed to execute
ExecHandlers ==
    [name : {"h1", "h2"}, enabled : {TRUE}, hooks : {{"PreToolUse"}},
     type : {"command", "external"}, command : {None, Some("cmd")},
     matcher : {None, Some("Bash")}]
    \cup
    [name : {"h1"}, enabled : {TRUE}, hooks : {{"PreToolUse"}},
     type : {"bogus"}, command : {Some("cmd")}, matcher : {None}]
    \cup
    [name : {"h1"}, enabled : {TRUE}, hooks : {{"PreToolUse"}},
     type : {"velcro"}, code : {None, Some(""), Some("code")}, matcher : {None, Some("Bash")}]
    \cup
    [name : {"h2"}, enabled : {TRUE}, hooks : {{"PreToolUse"}},
     type : {"function"}, code : {None, Some("code")}, matcher : {None}]
    \cup
    [name : {"h2"}, enabled : {TRUE}, hooks : {{"PreToolUse"}},
     type : {"script"}, script : {None}, matcher : {None}]

\* the events handed to execute (the executor reads hook_event_name and tool_name)
ExecHookDatas == {hd \in HookDatas : hd.session_id = "s1"}

\* exit codes of a child: null (killed by a signal) or a status
ExitCodes == {None} \cup {Some(c) : c \in 0..(EXIT_CODE_BLOCK + MaxExtraExit)}

\* what a child writes to its standard output
Stdouts ==
    { EmptyText,
      <<WS>>,
      <<Word("ok"), WS>>,
      <<LBrace, Word("oops")>>,
      <<LBrace, RBrace>>,
      <<LBrace, Member("continue", "true"), RBrace, WS>>,
      <<LBrace, Member("decision", "approve"), RBrace>>,
      <<LBrace, Member("decision", "approve"), Member("reason", "R"), RBrace, WS>>,
      <<LBrace, Member("decision", "block"), RBrace, WS>>,
      <<LBrace, Member("decision", "block"), Member("reason", "R"), RBrace>>,
      <<LBrace, Member("decision", "ask"), RBrace>>,
      <<WS, LBrace, Member("reason", "R"), Member("decision", "block"), RBrace, WS>> }

\* Date.now() - startTime of a call of execute, in milliseconds
ExecDurations == 1..MaxDuration

\* what a child writes to its standard error
Stderrs == { EmptyText, <<Word("E"), WS>>, <<Word("R")>> }

Fulfilled(r) == [status |-> "fulfilled", value |-> r, reason |-> ""]
Rejected(msg) == [status |-> "rejected", value |-> None, reason |-> msg]

\* a buggy variant of Finish: the execution is recorded as a success
\* whatever the result says
Finish_RecordsSuccess(handler, r, duration, writeOk, ch) ==
    /\ child' = ch
    /\ stats' = recordExecution(stats, handler.name, duration, TRUE, r.error)
    /\ statsFile' = IF writeOk THEN stats' ELSE statsFile
    /\ result' = IF writeOk
                 THEN Some(Fulfilled([r EXCEPT !.duration = duration]))
                 ELSE Some(Rejected("EACCES: handler-stats.json"))
    /\ invocation' = None

\* the finally block of execute: the duration is set and the execution
\* recorded; writeOk is whether writeFileSync of saveStats succeeds (when it
\* throws, the promise of execute rejects)
Finish(handler, r, duration, writeOk, ch) ==
    /\ child' = ch
    /\ stats' = recordExecution(stats, handler.name, duration, r.success, r.error)
    /\ statsFile' = IF writeOk THEN stats' ELSE statsFile
    /\ result' = IF writeOk
                 THEN Some(Fulfilled([r EXCEPT !.duration = duration]))
                 ELSE Some(Rejected("EACCES: handler-stats.json"))
    /\ invocation' = None

ExecFrame == UNCHANGED <<handlers, sessions, projectConfig, resolved, request, history>>

\* execute, for a handler whose matcher does not match: no process is spawned
ExecuteSkipped ==
    /\ invocation = None
    /\ TotalExecutions(stats) < MaxInvocations
    /\ \E h \in ExecHandlers :
        /\ (\E hd \in ExecHookDatas : skipped(h, hd)) = TRUE
        /\ \E d \in ExecDurations, w \in BOOLEAN :
            /\ LET hd == CHOOSE e \in ExecHookDatas : skipped(h, e)
               IN  Finish(h, Get(executeSync(h, hd)), d, w, None)
            /\ ExecFrame

\* execute, for a handler without its payload or of an unknown type
ExecuteMisconfigured ==
    /\ invocation = None
    /\ TotalExecutions(stats) < MaxInvocations
    /\ \E h \in ExecHandlers :
        /\ (\E hd \in ExecHookDatas : ~skipped(h, hd) /\ IsSome(executeSync(h, hd))) = TRUE
        /\ \E d \in ExecDurations, w \in BOOLEAN :
            /\ LET hd == CHOOSE e \in ExecHookDatas :
                              ~skipped(h, e) /\ IsSome(executeSync(h, e))
               IN  Finish(h, Get(executeSync(h, hd)), d, w, None)
            /\ ExecFrame

\* execute, up to the spawn of the child and the wait for its events
ExecuteSpawn ==
    /\ invocation = None
    /\ TotalExecutions(stats) < MaxInvocations
    /\ \E h \in ExecHandlers, hd \in ExecHookDatas :
        /\ executeSync(h, hd) = None
        /\ h.type # "function"
        /\ invocation' = Some([handler |-> h, result |-> NewResult(h)])
        /\ result' = None
        /\ child' = None
        /\ UNCHANGED <<stats, statsFile>>
        /\ ExecFrame

\* execute, for a function handler: the handler code runs in this process
\* and returns a value; child holds the call and what it returned
ExecuteFunction ==
    /\ invocation = None
    /\ TotalExecutions(stats) < MaxInvocations
    /\ \E h \in ExecHandlers :
        /\ h.type = "function"
        /\ (\E hd \in ExecHookDatas : executeSync(h, hd) = None) = TRUE
        /\ \E ret \in FunctionReturns, d \in ExecDurations, w \in BOOLEAN :
            /\ Finish(h, functionOnReturn(NewResult(h), ret), d, w,
                      Some([type |-> "function", returned |-> Some(ret)]))
            /\ ExecFrame

\* execute, for a function handler whose code throws
ExecuteFunctionThrows ==
    /\ invocation = None
    /\ TotalExecutions(stats) < MaxInvocations
    /\ \E h \in ExecHandlers :
        /\ h.type = "function"
        /\ (\E hd \in ExecHookDatas : executeSync(h, hd) = None) = TRUE
        /\ \E d \in ExecDurations, w \in BOOLEAN :
            /\ Finish(h, functionOnThrow(NewResult(h), "boom"), d, w,
                      Some([type |-> "function", returned |-> None]))
            /\ ExecFrame

\* the child exits: the 'exit' listener classifies, the promise resolves and
\* the finally block runs
ChildExit ==
    /\ invocation # None
    /\ \E code \in ExitCodes, out \in Stdouts, err \in Stderrs,
          d \in ExecDurations, w \in BOOLEAN :
        /\ LET inv == Get(invocation)
           IN  Finish(inv.handler,
                      onExit(inv.handler, inv.result, code, out, err), d, w,
                      Some([type |-> inv.handler.type, code |-> code,
                            stdout |-> out, stderr |-> err, termination |-> None]))
        /\ ExecFrame

\* the runner subprocess of a velcro handler runs the handler code to its
\* end and exits; the parent's 'exit' listener classifies
RunnerExit ==
    /\ invocation # None
    /\ Get(invocation).handler.type = "velcro"
    /\ \E t \in Terminations, out \in Stdouts, err \in Stderrs,
          d \in ExecDurations, w \in BOOLEAN :
        /\ LET inv  == Get(invocation)
               code == Some(runnerExitStatus(t))
           IN  Finish(inv.handler,
                      onExit(inv.handler, inv.result, code, out, err), d, w,
                      Some([type |-> inv.handler.type, code |-> code,
                            stdout |-> out, stderr |-> err, termination |-> Some(t)]))
        /\ ExecFrame

\* the child could not be spawned: the 'error' listener
ChildError ==
    /\ invocation # None
    /\ \E d \in ExecDurations, w \in BOOLEAN :
        /\ LET inv == Get(invocation)
           IN  Finish(inv.handler, childOnError(inv.result, "spawn ENOENT"), d, w, None)
        /\ ExecFrame

InitExec ==
    /\ invocation = None
    /\ result = None
    /\ child = None
    /\ stats = << >>
    /\ statsFile = << >>
    /\ handlers = << >>
    /\ sessions = << >>
    /\ projectConfig = None
    /\ resolved = None
    /\ request = None
    /\ history = << >>

NextExec ==
    \/ ExecuteSkipped
    \/ ExecuteMisconfigured
    \/ ExecuteSpawn
    \/ ExecuteFunction
    \/ ExecuteFunctionThrows
    \/ ChildExit
    \/ RunnerExit
    \/ ChildError

SpecExec == InitExec /\ [][NextExec]_vars

----------------------------------------------------------------------------
(* config/index.ts: the global handler definitions *)

\* the configured handlers, in definition order
ConfigHandlers ==
    << [name |-> "h1", enabled |-> TRUE,  hooks |-> {"PreToolUse"},
        type |-> "command", command |-> Some("cmd"), matcher |-> None],
       [name |-> "h2", enabled |-> FALSE, hooks |-> {"PreToolUse", "UserPromptSubmit"},
        type |-> "external", command |-> Some("cmd"), matcher |-> None],
       [name |-> "h3", enabled |-> TRUE,  hooks |-> {"PreToolUse"},
        type |-> "command", command |-> Some("cmd"), matcher |-> Some("Edit|Write")] >>

HandlerNames == {ConfigHandlers[i].name : i \in DOMAIN ConfigHandlers}

----------------------------------------------------------------------------
(* config/index.ts: ConfigManager, and the handler commands that call it *)

\* the index of the first entry named name, or 0: findIndex / find
findIndex(hs, name) ==
    IF \E i \in DOMAIN hs : hs[i].name = name
    THEN CHOOSE i \in DOMAIN hs : hs[i].name = name /\ \A j \in 1..(i - 1) : hs[j].name # name
    ELSE 0

\* ConfigManager.getHandler
getHandler(hs, name) ==
    IF findIndex(hs, name) = 0 THEN None ELSE Some(hs[findIndex(hs, name)])

\* ConfigManager.addHandler: the definition is pushed
addHandler(hs, handler) == Append(hs, handler)

\* ConfigManager.removeHandler: the first entry with the name is spliced out
removeHandler(hs, name) ==
    LET index == findIndex(hs, name)
    IN  IF index # 0
        THEN SubSeq(hs, 1, index - 1) \o SubSeq(hs, index + 1, Len(hs))
        ELSE hs

\* ConfigManager.enableHandler / disableHandler
setEnabled(hs, name, value) ==
    IF findIndex(hs, name) # 0
    THEN [hs EXCEPT ![findIndex(hs, name)].enabled = value]
    ELSE hs

\* the update command: the entry found by name is changed in place (a new
\* name, a new matcher), then removeHandler(name) is called with the name
\* given on the command line, then the changed definition is added
updateHandler(hs, name, newName, matcher) ==
    LET index == findIndex(hs, name)
        old   == hs[index]
        h1    == IF IsSome(newName) /\ Get(newName) # ""
                 THEN [old EXCEPT !.name = Get(newName)] ELSE old
        h2    == IF IsSome(matcher) THEN [h1 EXCEPT !.matcher = matcher] ELSE h1
    IN  IF index = 0 THEN hs
        ELSE addHandler(removeHandler([hs EXCEPT ![index] = h2], name), h2)

\* the names given on the command line and to the hooks tool
GivenNames == {"h1", "h2", "h3"}

\* the definitions handed to addHandler
AddedHandlers ==
    [name : GivenNames, enabled : BOOLEAN, hooks : {{"PreToolUse"}},
     type : {"command"}, command : {Some("cmd")}, matcher : {None}]

ConfigFrame ==
    UNCHANGED <<invocation, result, child, stats, statsFile, sessions,
                projectConfig, resolved, request, history>>

\* handler add (CLI), hooks tool 'add', import
AddHandler ==
    /\ Len(handlers) < MaxHandlers
    /\ \E h \in AddedHandlers :
        /\ handlers' = addHandler(handlers, h)
        /\ ConfigFrame

\* handler delete (CLI), hooks tool 'remove'
RemoveHandler ==
    \E n \in GivenNames :
        /\ handlers' = removeHandler(handlers, n)
        /\ ConfigFrame

\* handler update (CLI)
UpdateHandler ==
    /\ Len(handlers) < MaxHandlers
    /\ \E n \in GivenNames, newName \in {None} \cup {Some(x) : x \in GivenNames},
          m \in {None, Some("Bash")} :
        /\ handlers' = updateHandler(handlers, n, newName, m)
        /\ ConfigFrame

\* handler enable
EnableHandler ==
    \E n \in GivenNames :
        /\ handlers' = setEnabled(handlers, n, TRUE)
        /\ ConfigFrame

\* handler disable
DisableHandler ==
    \E n \in GivenNames :
        /\ handlers' = setEnabled(handlers, n, FALSE)
        /\ ConfigFrame

InitConfig ==
    /\ invocation = None
    /\ result = None
    /\ child = None
    /\ stats = << >>
    /\ statsFile = << >>
    /\ handlers = << >>
    /\ sessions = << >>
    /\ projectConfig = None
    /\ resolved = None
    /\ request = None
    /\ history = << >>

NextConfig ==
    \/ AddHandler
    \/ RemoveHandler
    \/ UpdateHandler
    \/ EnableHandler
    \/ DisableHandler

SpecConfig == InitConfig /\ [][NextConfig]_vars

----------------------------------------------------------------------------
(* session/state.ts *)

NewSession == [enabledHooks |-> {}, disabledHooks |-> {}]

getOrCreateSession(ss, sessionId) ==
    IF sessionId \in DOMAIN ss THEN ss ELSE (sessionId :> NewSession) @@ ss

\* a buggy variant of enableHookForSession: the name is not removed from
\* the disabled set
enableHookForSession_KeepDisabled(ss, sessionId, hookName) ==
    LET s1 == getOrCreateSession(ss, sessionId)
    IN  [s1 EXCEPT ![sessionId].enabledHooks = @ \cup {hookName}]

enableHookForSession(ss, sessionId, hookName) ==
    LET s1 == getOrCreateSession(ss, sessionId)
    IN  [s1 EXCEPT ![sessionId].enabledHooks = @ \cup {hookName},
                   ![sessionId].disabledHooks = @ \ {hookName}]

disableHookForSession(ss, sessionId, hookName) ==
    LET s1 == getOrCreateSession(ss, sessionId)
    IN  [s1 EXCEPT ![sessionId].disabledHooks = @ \cup {hookName},
                   ![sessionId].enabledHooks = @ \ {hookName}]

\* a buggy variant of isHookEnabledForSession: a known session without an
\* override for the name answers false
isHookEnabledForSession_TwoState(ss, sessionId, hookName) ==
    IF sessionId \notin DOMAIN ss THEN None
    ELSE IF hookName \in ss[sessionId].enabledHooks THEN Some(TRUE)
    ELSE Some(FALSE)

\* Some(TRUE), Some(FALSE), or None when the session has no override
isHookEnabledForSession(ss, sessionId, hookName) ==
    IF sessionId \notin DOMAIN ss THEN None
    ELSE IF hookName \in ss[sessionId].disabledHooks THEN Some(FALSE)
    ELSE IF hookName \in ss[sessionId].enabledHooks THEN Some(TRUE)
    ELSE None

clearSession(ss, sessionId) ==
    [s \in (DOMAIN ss) \ {sessionId} |-> ss[s]]

----------------------------------------------------------------------------
(* The session override store as a state machine *)

\* the names handed to the store (it does not check them against the
\* configuration)
SessionHookNames == {"h1", "h2"}

SessionFrame ==
    UNCHANGED <<invocation, result, child, stats, statsFile, handlers,
                projectConfig, resolved, request>>

\* sessionStateManager.enableHookForSession(sessionId, hookName)
SessionEnableHook ==
    /\ Len(history) < MaxCalls
    /\ \E id \in SessionIds, n \in SessionHookNames :
        /\ sessions' = enableHookForSession(sessions, id, n)
        /\ history' = Append(history, [op |-> "enableHookForSession",
                                       sessionId |-> id, hookName |-> n])
        /\ SessionFrame

\* sessionStateManager.disableHookForSession(sessionId, hookName)
SessionDisableHook ==
    /\ Len(history) < MaxCalls
    /\ \E id \in SessionIds, n \in SessionHookNames :
        /\ sessions' = disableHookForSession(sessions, id, n)
        /\ history' = Append(history, [op |-> "disableHookForSession",
                                       sessionId |-> id, hookName |-> n])
        /\ SessionFrame

\* sessionStateManager.clearSession(sessionId)
SessionClear ==
    /\ Len(history) < MaxCalls
    /\ \E id \in SessionIds :
        /\ sessions' = clearSession(sessions, id)
        /\ history' = Append(history, [op |-> "clearSession",
                                       sessionId |-> id, hookName |-> ""])
        /\ SessionFrame

InitSession ==
    /\ invocation = None
    /\ result = None
    /\ child = None
    /\ stats = << >>
    /\ statsFile = << >>
    /\ handlers = << >>
    /\ sessions = << >>
    /\ projectConfig = None
    /\ resolved = None
    /\ request = None
    /\ history = << >>

NextSession ==
    \/ SessionEnableHook
    \/ SessionDisableHook
    \/ SessionClear

SpecSession == InitSession /\ [][NextSession]_vars

----------------------------------------------------------------------------
(* config/project-config.ts *)

RootDir == "/"

\* path.join(dir, '..')
parentDir(dir) ==
    CASE dir = "/a/src" -> "/a"
      [] OTHER          -> RootDir

\* the .velcro/project.json files on disk: parsed content, or unparsable
ProjectFiles ==
    [ a   |-> [ok |-> TRUE,
               value |-> [hooks |-> Some([enabled   |-> Some({"h2"}),
                                          disabled  |-> Some({"h1"}),
                                          overrides |-> Some([h2 |-> [matcher |-> Some("Bash")]])])]],
      b   |-> [ok |-> TRUE,
               value |-> [hooks |-> Some([enabled   |-> Some({"h1", "h3"}),
                                          disabled  |-> Some({"h3"}),
                                          overrides |-> None])]],
      c   |-> [ok |-> TRUE, value |-> [hooks |-> None]],
      bad |-> [ok |-> FALSE, value |-> [hooks |-> None]] ]

\* the project.json of a directory: the key of ProjectFiles, or None
projectFileOf(dir) ==
    CASE dir = "/a"   -> Some("a")
      [] dir = "/b"   -> Some("b")
      [] dir = "/c"   -> Some("c")
      [] dir = "/bad" -> Some("bad")
      [] OTHER        -> None

\* the working directories of the events
Cwds == {"/a/src", "/b", "/c", "/bad", "/none"}

\* findProjectConfig: walk up from startDir to the first directory with a
\* .velcro/project.json
RECURSIVE findProjectConfig(_)
findProjectConfig(currentDir) ==
    IF currentDir = RootDir THEN None
    ELSE IF IsSome(projectFileOf(currentDir)) THEN projectFileOf(currentDir)
    ELSE IF parentDir(currentDir) = currentDir THEN None
    ELSE findProjectConfig(parentDir(currentDir))

\* loadProjectConfig: the new value of this.projectConfig
loadProjectConfig(pc, startDir) ==
    LET path == findProjectConfig(startDir)
    IN  IF path = None THEN pc
        ELSE IF ProjectFiles[Get(path)].ok
             THEN Some(ProjectFiles[Get(path)].value)
             ELSE pc

\* list?.includes(name)
Includes(list, name) == IsSome(list) /\ name \in Get(list)

\* the hooks section of the loaded configuration: this.projectConfig?.hooks
hooksOf(pc) == IF pc = None THEN None ELSE Get(pc).hooks

\* a buggy variant of isHandlerEnabled: the enabled list is looked at first
isHandlerEnabled_IncludeFirst(pc, handlerName, globalEnabled) ==
    IF hooksOf(pc) = None THEN globalEnabled
    ELSE IF Includes(Get(hooksOf(pc)).enabled, handlerName) THEN TRUE
    ELSE IF Includes(Get(hooksOf(pc)).disabled, handlerName) THEN FALSE
    ELSE globalEnabled

isHandlerEnabled(pc, handlerName, globalEnabled) ==
    IF hooksOf(pc) = None THEN globalEnabled
    ELSE IF Includes(Get(hooksOf(pc)).disabled, handlerName) THEN FALSE
    ELSE IF Includes(Get(hooksOf(pc)).enabled, handlerName) THEN TRUE
    ELSE globalEnabled

\* getHandlerOverrides: Some(partial handler) or None
getHandlerOverrides(pc, handlerName) ==
    IF hooksOf(pc) = None THEN None
    ELSE IF Get(hooksOf(pc)).overrides = None THEN None
    ELSE IF handlerName \in DOMAIN Get(Get(hooksOf(pc)).overrides)
         THEN Some(Get(Get(hooksOf(pc)).overrides)[handlerName])
         ELSE None

----------------------------------------------------------------------------
(* handlers/resolver.ts *)

\* a buggy variant of shouldRunHandler: the project layer is consulted
\* before the session layer
shouldRunHandler_ProjectFirst(handler, hookData, ss, pc) ==
    IF hookData.hook_event_name \notin handler.hooks THEN FALSE
    ELSE IF hooksOf(pc) # None
            /\ (\/ Includes(Get(hooksOf(pc)).disabled, handler.name)
                \/ Includes(Get(hooksOf(pc)).enabled, handler.name))
         THEN isHandlerEnabled(pc, handler.name, handler.enabled)
         ELSE IF IsSome(isHookEnabledForSession(ss, hookData.session_id, handler.name))
              THEN Get(isHookEnabledForSession(ss, hookData.session_id, handler.name))
              ELSE handler.enabled

shouldRunHandler(handler, hookData, ss, pc) ==
    LET sessionOverride == isHookEnabledForSession(ss, hookData.session_id, handler.name)
        projectEnabled  == isHandlerEnabled(pc, handler.name, handler.enabled)
    IN  IF IsSome(sessionOverride) THEN Get(sessionOverride)
        ELSE IF hookData.hook_event_name \notin handler.hooks THEN FALSE
        ELSE projectEnabled

\* a buggy variant of mergeOverrides: { ...overrides, ...handler }
mergeOverrides_DefinitionWins(handler, overrides) ==
    [f \in (DOMAIN handler) \cup (DOMAIN overrides) |->
        IF f \in DOMAIN handler THEN handler[f] ELSE overrides[f]]

\* { ...handler, ...overrides }
mergeOverrides(handler, overrides) ==
    [f \in (DOMAIN handler) \cup (DOMAIN overrides) |->
        IF f \in DOMAIN overrides THEN overrides[f] ELSE handler[f]]

\* a buggy variant of resolveFrom: a resolved handler is put in front of
\* the list (unshift)
RECURSIVE resolveFrom_Unshift(_, _, _, _, _)
resolveFrom_Unshift(all, i, hookData, ss, pc) ==
    IF i > Len(all) THEN << >>
    ELSE LET handler == all[i]
             rest    == resolveFrom_Unshift(all, i + 1, hookData, ss, pc)
         IN  IF shouldRunHandler(handler, hookData, ss, pc)
             THEN IF IsSome(getHandlerOverrides(pc, handler.name))
                  THEN rest \o <<mergeOverrides(handler, Get(getHandlerOverrides(pc, handler.name)))>>
                  ELSE rest \o <<handler>>
             ELSE rest

\* the loop of resolveHandlers over the definitions all[i..]
RECURSIVE resolveFrom(_, _, _, _, _)
resolveFrom(all, i, hookData, ss, pc) ==
    IF i > Len(all) THEN << >>
    ELSE LET handler == all[i]
             rest    == resolveFrom(all, i + 1, hookData, ss, pc)
         IN  IF shouldRunHandler(handler, hookData, ss, pc)
             THEN IF IsSome(getHandlerOverrides(pc, handler.name))
                  THEN <<mergeOverrides(handler, Get(getHandlerOverrides(pc, handler.name)))>> \o rest
                  ELSE <<handler>> \o rest
             ELSE rest

\* the project configuration resolveHandlers works with: loaded when the
\* event has a cwd
projectConfigFor(pc, hookData) ==
    IF IsSome(hookData.cwd) /\ Get(hookData.cwd) # ""
    THEN loadProjectConfig(pc, Get(hookData.cwd))
    ELSE pc

\* resolveHandlers: the returned list
resolveHandlers(all, hookData, ss, pc) ==
    resolveFrom(all, 1, hookData, ss, projectConfigFor(pc, hookData))

----------------------------------------------------------------------------
(* The resolver as a state machine *)

\* the events handed to resolveHandlers
ResolveHookDatas ==
    [hook_event_name : {"PreToolUse"}, session_id : SessionIds,
     cwd : {None} \cup {Some(d) : d \in Cwds}, tool_name : {Some("Bash")}]
    \cup
    [hook_event_name : {"UserPromptSubmit"}, session_id : SessionIds,
     cwd : {None} \cup {Some(d) : d \in Cwds}, tool_name : {None}]

ResolveFrame == UNCHANGED <<invocation, result, child, stats, statsFile, request, history>>

\* the session tool enables a handler for a session
EnableHookForSession ==
    \E s \in SessionIds, h \in HandlerNames :
        /\ resolved = None
        /\ sessions' = enableHookForSession(sessions, s, h)
        /\ UNCHANGED <<handlers, projectConfig, resolved>>
        /\ ResolveFrame

\* the session tool disables a handler for a session
DisableHookForSession ==
    \E s \in SessionIds, h \in HandlerNames :
        /\ resolved = None
        /\ sessions' = disableHookForSession(sessions, s, h)
        /\ UNCHANGED <<handlers, projectConfig, resolved>>
        /\ ResolveFrame

\* the session tool clears a session
ClearSession ==
    \E s \in SessionIds :
        /\ resolved = None
        /\ sessions' = clearSession(sessions, s)
        /\ UNCHANGED <<handlers, projectConfig, resolved>>
        /\ ResolveFrame

\* resolveHandlers(hookData): the project configuration is (re)loaded and the
\* list computed; resolved holds the call and its return value, with the
\* project configuration the call started from
ResolveHandlers ==
    \E hd \in ResolveHookDatas :
        /\ resolved = None
        /\ projectConfig' = projectConfigFor(projectConfig, hd)
        /\ resolved' = Some([hookData |-> hd,
                             handlers |-> resolveHandlers(handlers, hd, sessions, projectConfig),
                             before   |-> projectConfig])
        /\ UNCHANGED <<handlers, sessions>>
        /\ ResolveFrame

\* the synchronous call returns to its caller, which takes the list
ResolveReturn ==
    /\ resolved # None
    /\ resolved' = None
    /\ UNCHANGED <<handlers, sessions, projectConfig>>
    /\ ResolveFrame

InitResolve ==
    /\ invocation = None
    /\ result = None
    /\ child = None
    /\ stats = << >>
    /\ statsFile = << >>
    /\ handlers = ConfigHandlers
    /\ sessions = << >>
    /\ projectConfig = None
    /\ resolved = None
    /\ request = None
    /\ history = << >>

NextResolve ==
    \/ EnableHookForSession
    \/ DisableHookForSession
    \/ ClearSession
    \/ ResolveHandlers
    \/ ResolveReturn

SpecResolve == InitResolve /\ [][NextResolve]_vars

----------------------------------------------------------------------------
(* server/http-server.ts: POST /hooks *)

\* what the child of handler n does in the model of the route: its exit
\* code and output, or a failure to spawn
HookOutcomes(n) ==
    { [kind |-> "exit", code |-> Some(EXIT_CODE_SUCCESS),
       stdout |-> <<Word("out-" \o n), WS>>, stderr |-> EmptyText],
      [kind |-> "exit", code |-> Some(EXIT_CODE_SUCCESS),
       stdout |-> <<LBrace, Member("decision", "block"), Member("reason", "why-" \o n), RBrace>>,
       stderr |-> EmptyText],
      [kind |-> "exit", code |-> Some(EXIT_CODE_ERROR),
       stdout |-> <<Word("out-" \o n)>>, stderr |-> <<Word("err-" \o n)>>],
      [kind |-> "exit", code |-> Some(EXIT_CODE_BLOCK),
       stdout |-> <<Word("out-" \o n)>>, stderr |-> <<Word("err-" \o n), WS>>],
      [kind |-> "error", code |-> None, stdout |-> EmptyText, stderr |-> EmptyText] }

\* the result of execute, before its finally block, for a handler whose
\* child does o
executeOutcome(handler, hookData, o) ==
    IF IsSome(executeSync(handler, hookData))
    THEN Get(executeSync(handler, hookData))
    ELSE IF o.kind = "error"
         THEN childOnError(NewResult(handler), "spawn ENOENT")
         ELSE onExit(handler, NewResult(handler), o.code, o.stdout, o.stderr)

\* the promise of execute once its finally block has run
executePromise(r, duration, writeOk) ==
    IF writeOk
    THEN Fulfilled([r EXCEPT !.duration = duration])
    ELSE Rejected("EACCES: handler-stats.json")

\* a buggy variant of allSettled: the outcomes in the order of completion
allSettled_CompletionOrder(req) ==
    [k \in DOMAIN req.order |-> Get(req.settled[req.order[k]]).promise]

\* Promise.allSettled(executionPromises): the outcomes in the order of the
\* promises, which is the order of the resolved handlers
allSettled(req) ==
    [i \in DOMAIN req.settled |-> Get(req.settled[i]).promise]

\* the entry pushed for a rejected promise
rejectedEntry(handler, reason) ==
    [NewResult(handler) EXCEPT !.error = Some(reason)]

\* a buggy variant of processResult: a failed result counts as blocking
processResult_FailureBlocks(acc, handler, promiseResult) ==
    IF promiseResult.status = "fulfilled"
    THEN LET r == promiseResult.value
         IN  IF r.blockExecution \/ ~r.success
             THEN [results |-> Append(acc.results, r), blocked |-> TRUE,
                   blockingResult |-> Some(r)]
             ELSE [acc EXCEPT !.results = Append(@, r)]
    ELSE [acc EXCEPT !.results = Append(@, rejectedEntry(handler, promiseResult.reason))]

\* a buggy variant of processResult: rejected promises leave no entry
processResult_DropRejected(acc, handler, promiseResult) ==
    IF promiseResult.status = "fulfilled"
    THEN LET r == promiseResult.value
         IN  IF r.blockExecution
             THEN [results |-> Append(acc.results, r), blocked |-> TRUE,
                   blockingResult |-> Some(r)]
             ELSE [acc EXCEPT !.results = Append(@, r)]
    ELSE acc

\* one iteration of the "Process results" loop
processResult(acc, handler, promiseResult) ==
    IF promiseResult.status = "fulfilled"
    THEN LET r == promiseResult.value
         IN  IF r.blockExecution
             THEN [results |-> Append(acc.results, r), blocked |-> TRUE,
                   blockingResult |-> Some(r)]
             ELSE [acc EXCEPT !.results = Append(@, r)]
    ELSE [acc EXCEPT !.results = Append(@, rejectedEntry(handler, promiseResult.reason))]

\* the "Process results" loop from index i on
RECURSIVE processResults(_, _, _, _)
processResults(acc, hs, executionResults, i) ==
    IF i > Len(executionResults) THEN acc
    ELSE processResults(processResult(acc, hs[i], executionResults[i]),
                        hs, executionResults, i + 1)

\* the separator of the joined outputs: two newlines
Separator == <<WS, WS>>

\* Array.prototype.join with the separator
RECURSIVE joinTexts(_)
joinTexts(texts) ==
    IF texts = << >> THEN EmptyText
    ELSE IF Len(texts) = 1 THEN texts[1]
    ELSE texts[1] \o Separator \o joinTexts(Tail(texts))

\* r.success && r.output && r.output.trim()
hasSuccessfulOutput(r) ==
    r.success /\ IsSome(r.output) /\ TruthyText(Get(r.output)) /\ TruthyText(trim(Get(r.output)))

\* the successful outputs of the results, trimmed
RECURSIVE successfulOutputs(_)
successfulOutputs(results) ==
    IF results = << >> THEN << >>
    ELSE IF hasSuccessfulOutput(Head(results))
         THEN <<trim(Get(Head(results).output))>> \o successfulOutputs(Tail(results))
         ELSE successfulOutputs(Tail(results))

\* the JSON responses of the results
RECURSIVE jsonResponses(_)
jsonResponses(results) ==
    IF results = << >> THEN << >>
    ELSE IF IsSome(Head(results).response)
         THEN <<Get(Head(results).response)>> \o jsonResponses(Tail(results))
         ELSE jsonResponses(Tail(results))

\* blockingResult.stderr || 'Operation blocked'
blockingMessageOf(r) ==
    IF IsSome(r.stderr) /\ TruthyText(Get(r.stderr))
    THEN Get(r.stderr) ELSE TextOf("Operation blocked")

\* the response of the route, built from the processed results
buildResponse(acc) ==
    LET isBlocked == acc.blocked /\ IsSome(acc.blockingResult)
        b    == Get(acc.blockingResult)
        json == isBlocked /\ IsSome(b.response)
        noReason == Get(b.response).reason = None \/ Get(Get(b.response).reason) = ""
        outs == successfulOutputs(acc.results)
        resp == jsonResponses(acc.results)
    IN  [success         |-> ~acc.blocked,
         handlers        |-> Len(acc.results),
         blocked         |-> isBlocked,
         blockingHandler |-> IF isBlocked THEN Some(b.handler) ELSE None,
         decision        |-> IF json THEN Get(b.response).decision ELSE None,
         reason          |-> IF json THEN Get(b.response).reason ELSE None,
         blockingMessage |->
            IF ~isBlocked THEN None
            ELSE IF json
                 THEN IF noReason \/ b.stderr # Some(TextOf(Get(Get(b.response).reason)))
                      THEN Some(blockingMessageOf(b))
                      ELSE None
                 ELSE Some(blockingMessageOf(b)),
         output          |-> IF Len(outs) > 0 THEN Some(joinTexts(outs)) ELSE None,
         responses       |-> IF Len(resp) > 0 THEN Some(resp) ELSE None]

NoBlocking == [results |-> << >>, blocked |-> FALSE, blockingResult |-> None]

----------------------------------------------------------------------------
(* The route as a state machine: one request *)

\* the events posted to the route
PostedHookDatas ==
    [hook_event_name : {"PreToolUse"}, session_id : SessionIds,
     cwd : {None, Some("/a/src")}, tool_name : {Some(t) : t \in ToolNames}]
    \cup
    [hook_event_name : {"UserPromptSubmit"}, session_id : SessionIds,
     cwd : {None}, tool_name : {None}]

\* the session overrides the server holds when the request arrives
PostedSessions == enableHookForSession(<< >>, "s1", "h2")

\* the request arrives: the handlers are resolved and execute is called for
\* each of them
ReceiveHook ==
    \E hd \in PostedHookDatas :
        /\ request = None
        /\ projectConfig' = projectConfigFor(projectConfig, hd)
        /\ request' = Some([phase    |-> "running",
                            hookData |-> hd,
                            handlers |-> resolveHandlers(handlers, hd, sessions, projectConfig),
                            settled  |-> [i \in DOMAIN resolveHandlers(handlers, hd, sessions, projectConfig) |-> None],
                            order    |-> << >>,
                            response |-> None])
        /\ UNCHANGED <<invocation, result, child, stats, statsFile, handlers, sessions, resolved, history>>

\* the promise of handler i settles with result r
Settle(i, o, r, d, w) ==
    LET req == Get(request)
    IN  /\ stats' = recordExecution(stats, req.handlers[i].name, d, r.success, r.error)
        /\ statsFile' = IF w THEN stats' ELSE statsFile
        /\ request' = Some([req EXCEPT
                !.settled[i] = Some([promise |-> executePromise(r, d, w), outcome |-> o]),
                !.order = Append(@, i)])
        /\ UNCHANGED <<invocation, result, child, handlers, sessions, projectConfig, resolved, history>>

\* execute of handler i ends without a child: skipped, or misconfigured
SettleWithoutChild ==
    \E i \in 1..Len(ConfigHandlers), d \in {0, MaxDuration}, w \in BOOLEAN :
        /\ request # None
        /\ Get(request).phase = "running"
        /\ i \in DOMAIN Get(request).handlers
        /\ Get(request).settled[i] = None
        /\ IsSome(executeSync(Get(request).handlers[i], Get(request).hookData))
        /\ Settle(i, None, Get(executeSync(Get(request).handlers[i], Get(request).hookData)), d, w)

\* the child of handler i exits, or fails to spawn
SettleChild ==
    \E i \in 1..Len(ConfigHandlers), d \in {0, MaxDuration}, w \in BOOLEAN :
        /\ request # None
        /\ Get(request).phase = "running"
        /\ i \in DOMAIN Get(request).handlers
        /\ Get(request).settled[i] = None
        /\ executeSync(Get(request).handlers[i], Get(request).hookData) = None
        /\ \E o \in HookOutcomes(Get(request).handlers[i].name) :
              Settle(i, Some(o),
                     executeOutcome(Get(request).handlers[i], Get(request).hookData, o), d, w)

\* await Promise.allSettled(...) can resume
allHaveSettled(req) ==
    \A i \in DOMAIN req.settled : req.settled[i] # None

\* every promise has settled: the results are processed and the response sent
Respond ==
    /\ request # None
    /\ Get(request).phase = "running"
    /\ allHaveSettled(Get(request))
    /\ LET req == Get(request)
           acc == processResults(NoBlocking, req.handlers, allSettled(req), 1)
       IN  request' = Some([req EXCEPT !.phase = "responded",
                                       !.response = Some([processed |-> acc,
                                                          body |-> buildResponse(acc)])])
    /\ UNCHANGED <<invocation, result, child, stats, statsFile, handlers, sessions,
                   projectConfig, resolved, history>>

InitHooks ==
    /\ invocation = None
    /\ result = None
    /\ child = None
    /\ stats = << >>
    /\ statsFile = << >>
    /\ handlers = ConfigHandlers
    /\ sessions = PostedSessions
    /\ projectConfig = None
    /\ resolved = None
    /\ request = None
    /\ history = << >>

NextHooks ==
    \/ ReceiveHook
    \/ SettleWithoutChild
    \/ SettleChild
    \/ Respond

SpecHooks == InitHooks /\ [][NextHooks]_vars

----------------------------------------------------------------------------
(* Claims about the classification protocol (SpecExec) *)

\* the last call of execute returned a result for a child that exited
ChildExited ==
    /\ child # None
    /\ result # None
    /\ Get(result).status = "fulfilled"
    /\ Get(child).type \in {"command", "external"}
TheResult == Get(result).value
TheChild == Get(child)

\* the child's standard output is the text of a JSON object whose decision is d
StdoutDecides(d) ==
    /\ IsJSONObject(trim(TheChild.stdout))
    /\ Lookup(trim(TheChild.stdout), "decision") = Some(d)

\* C1: exit code 2 is a hard override.  For every command or external
\* invocation whose child exits with code 2 the result has blockExecution
\* true, success false and exitCode 2, whatever the child wrote to stdout; a
\* JSON object on stdout (also one that says "approve") is still captured in
\* response.
C1_ExitCode2Blocks ==
    (ChildExited /\ TheChild.code = Some(EXIT_CODE_BLOCK)) =>
        /\ TheResult.blockExecution
        /\ ~TheResult.success
        /\ TheResult.exitCode = Some(EXIT_CODE_BLOCK)
        /\ IsJSONObject(trim(TheChild.stdout)) =>
              /\ TheResult.response # None
              /\ Get(TheResult.response).decision = Lookup(trim(TheChild.stdout), "decision")

\* C1, witness: a command child wrote {"decision":"approve"}, exited with 2
\* and the result blocks with the approve object in response
C1_Witness ==
    /\ ChildExited
    /\ TheChild.type = "command"
    /\ TheChild.code = Some(EXIT_CODE_BLOCK)
    /\ StdoutDecides("approve")
    /\ TheResult.blockExecution
    /\ TheResult.response # None
    /\ Get(TheResult.response).decision = Some("approve")

\* C2: for every command or external invocation whose stdout is a JSON
\* object with decision "block", the result has success false and
\* blockExecution true and the parsed object is captured in response, for
\* every exit code (0 included).
C2_JsonBlockBlocks ==
    (ChildExited /\ StdoutDecides("block")) =>
        /\ ~TheResult.success
        /\ TheResult.blockExecution
        /\ TheResult.response # None
        /\ Get(TheResult.response).decision = Some("block")
        /\ Get(TheResult.response).reason = Lookup(trim(TheChild.stdout), "reason")

\* C2, witness: a child wrote {"decision":"block","reason":"R"} and exited
\* with code 0; the result blocks
C2_Witness ==
    /\ ChildExited
    /\ TheChild.code = Some(EXIT_CODE_SUCCESS)
    /\ StdoutDecides("block")
    /\ Lookup(trim(TheChild.stdout), "reason") = Some("R")
    /\ TheResult.blockExecution
    /\ TheResult.exitCode = Some(EXIT_CODE_SUCCESS)

\* C3: default assumption.  Every command or external invocation whose child
\* exits with code 0, or without a code, yields success true for every
\* stdout content other than a JSON object whose decision is "block".
C3_ExitZeroSucceeds ==
    (/\ ChildExited
     /\ TheChild.code \in {Some(EXIT_CODE_SUCCESS), None}
     /\ ~StdoutDecides("block"))
        => TheResult.success

\* the child exited with a code other than 0 and 2
OtherExitCode ==
    /\ TheChild.code # None
    /\ Get(TheChild.code) \notin {EXIT_CODE_SUCCESS, EXIT_CODE_BLOCK}

\* C22: for every command or external invocation whose child exits with a
\* code other than 0 and 2 the result has success false, also when stdout is
\* a JSON object with decision "approve", and the result blocks only if the
\* JSON decision is "block".
C22_OtherExitCodeFails ==
    (ChildExited /\ OtherExitCode) =>
        /\ ~TheResult.success
        /\ TheResult.exitCode = TheChild.code
        /\ TheResult.blockExecution => StdoutDecides("block")

\* C22, witness: a child wrote {"decision":"approve"} and exited with code 1;
\* the result has success false and does not block
C22_Witness ==
    /\ ChildExited
    /\ TheChild.code = Some(EXIT_CODE_ERROR)
    /\ StdoutDecides("approve")
    /\ ~TheResult.success
    /\ ~TheResult.blockExecution
    /\ TheResult.response # None

----------------------------------------------------------------------------
(* Claims about velcro handlers and their runner subprocess (SpecExec) *)

\* the last call of execute returned a result for a velcro handler whose
\* runner subprocess exited
VelcroExited ==
    /\ child # None
    /\ result # None
    /\ Get(result).status = "fulfilled"
    /\ Get(child).type = "velcro"

\* ... and the runner ran the handler code to its end
RunnerExited == VelcroExited /\ TheChild.termination # None
TheTermination == Get(TheChild.termination)

\* the standard classification of exit status n
ClassifiedAs(n) ==
    CASE n = EXIT_CODE_SUCCESS -> TheResult.success /\ ~TheResult.blockExecution
      [] n = EXIT_CODE_BLOCK   -> ~TheResult.success /\ TheResult.blockExecution
      [] OTHER                 -> ~TheResult.success /\ ~TheResult.blockExecution

\* C11: termination calls of velcro handler code keep their exit status.  If
\* the code calls process.exit(n) the runner exits with status n and the
\* result is classified by the standard protocol (0 success, 2 blocked, any
\* other n a non-blocking failure); code that returns gives success and code
\* that throws gives a non-blocking failure.
C11_RunnerKeepsExitStatus ==
    RunnerExited =>
        /\ (TheTermination.kind = "exit" /\ TheTermination.code # None) =>
              /\ TheChild.code = TheTermination.code
              /\ TheResult.exitCode = TheTermination.code
              /\ ClassifiedAs(Get(TheTermination.code))
        /\ TheTermination.kind = "return" => ClassifiedAs(EXIT_CODE_SUCCESS)
        /\ TheTermination.kind = "throw" => ClassifiedAs(EXIT_CODE_ERROR)

\* C20: the classification protocol applies to velcro handlers.  If the
\* captured stdout of the runner begins with '{' and parses as JSON, decision
\* "block" forces success false and blockExecution true, and the parsed
\* object is captured in response.
C20_VelcroJsonProtocol ==
    (VelcroExited /\ IsJSONObject(trim(TheChild.stdout))) =>
        /\ TheResult.response = JSONparse(trim(TheChild.stdout))
        /\ StdoutDecides("block") => (~TheResult.success /\ TheResult.blockExecution)

----------------------------------------------------------------------------
(* Claims about the results of execute (SpecExec) *)

\* the messages of the errors execute throws for the misconfigured handlers
\* of the model: an unknown type, or the payload the type requires is missing
MisconfigurationMessages ==
    {"Unknown handler type: bogus"}
    \cup {"Velcro handler " \o n \o " has no code" : n \in {"h1", "h2"}}
    \cup {"Function handler " \o n \o " has no code" : n \in {"h1", "h2"}}
    \cup {"Command handler " \o n \o " has no command" : n \in {"h1", "h2"}}
    \cup {"External handler " \o n \o " has no command" : n \in {"h1", "h2"}}
    \cup {"Script handler " \o n \o " has no script path" : n \in {"h1", "h2"}}

\* C17: execute never lets an exception escape for a misconfigured handler.
\* A call for a handler of an unknown type, or without the payload its type
\* requires, returns a result with success false and an error that names the
\* unknown type or the missing payload, and spawns no process.
C17_MisconfiguredNeverThrows ==
    [][ExecuteMisconfigured =>
          /\ result' # None
          /\ Get(result').status = "fulfilled"
          /\ ~Get(result').value.success
          /\ Get(result').value.error # None
          /\ Get(Get(result').value.error) \in MisconfigurationMessages
          /\ invocation' = None
          /\ child' = None]_vars

\* execute has returned a result
Returned == result # None /\ Get(result).status = "fulfilled"

\* C18 as stated: every result returned by execute has blockExecution true
\* if and only if success is false.
C18_BlockIffFailure ==
    Returned => (TheResult.blockExecution <=> ~TheResult.success)

\* C18, amended: every result returned by execute with blockExecution true
\* has success false.  (A failure need not block: a child that exits with a
\* status other than 0 and 2, a spawn error and a configuration error give
\* success false without blockExecution.)
C18_BlockImpliesFailure ==
    Returned => (TheResult.blockExecution => ~TheResult.success)

\* C18, witness: a command child wrote {"decision":"approve"} and exited with
\* code 2; the returned result blocks and has success false
C18_Witness ==
    /\ ChildExited
    /\ TheChild.type = "command"
    /\ TheChild.code = Some(EXIT_CODE_BLOCK)
    /\ TheChild.stdout = <<LBrace, Member("decision", "approve"), RBrace>>
    /\ TheResult.blockExecution
    /\ ~TheResult.success

\* C19: a skipped invocation is terminal and free of side effects.  When the
\* matcher of the handler does not match the event, execute returns success
\* true without blockExecution, spawns no process, and leaves the statistics
\* map and its file unchanged.
C19_SkipHasNoSideEffect ==
    [][ExecuteSkipped =>
          /\ result' # None
          /\ Get(result').status = "fulfilled"
          /\ Get(result').value.success
          /\ ~Get(result').value.blockExecution
          /\ invocation' = None
          /\ child' = None
          /\ stats' = stats
          /\ statsFile' = statsFile]_vars

----------------------------------------------------------------------------
(* Claims about spawn failures, function handlers and the record every
   invocation leaves (SpecExec) *)

\* the last call of execute returned a result after the 'error' event of the
\* child
SpawnFailed == Returned /\ TheResult.error = Some("spawn ENOENT")

\* C27: a spawn failure of the child gives a result with success false, the
\* error message of the failure and no blockExecution; no exit code is
\* captured, and the invocation is over: nothing is pending and no other
\* child has been spawned for it.
C27_SpawnFailureIsLocal ==
    SpawnFailed =>
        /\ ~TheResult.success
        /\ ~TheResult.blockExecution
        /\ TheResult.exitCode = None
        /\ TheResult.response = None
        /\ invocation = None
        /\ child = None

\* C27, witness: execute returned the result of a spawn failure, and the
\* failure is in the statistics of the handler
C27_Witness ==
    /\ SpawnFailed
    /\ ~TheResult.success
    /\ stats[TheResult.handler].failures = 1
    /\ stats[TheResult.handler].lastError = Some("spawn ENOENT")

\* the last call of execute returned the result of a function handler
FunctionReturned == Returned /\ child # None /\ TheChild.type = "function"

\* the handler code threw
FunctionThrew == TheChild.returned = None

\* what the handler code returned
TheReturn == Get(TheChild.returned)

\* the return value is an object with blocked true or status 'blocked'
ReturnedBlocked ==
    /\ TheReturn.kind = "object"
    /\ (TheReturn.blocked = Some(TRUE) \/ TheReturn.status = Some("blocked"))

\* the return value is an object with error true or status 'error'
ReturnedError ==
    /\ TheReturn.kind = "object"
    /\ (TheReturn.error = Some(TRUE) \/ TheReturn.status = Some("error"))

C29_NoBlockWithSuccess ==
    Returned => ~(TheResult.blockExecution /\ TheResult.success)

\* C29, witness: a function handler returned { blocked: true } and nothing
\* else; the result blocks and has success false
C29_Witness ==
    /\ FunctionReturned
    /\ ~FunctionThrew
    /\ TheReturn.blocked = Some(TRUE)
    /\ TheReturn.status = None
    /\ TheReturn.error = None
    /\ TheResult.blockExecution
    /\ ~TheResult.success

\* a call of execute that ran a handler returns: every step that leaves a
\* result ends a call (ExecuteMisconfigured, ExecuteFunction,
\* ExecuteFunctionThrows, ChildExit, RunnerExit, ChildError), and this one is
\* not the step of a skipped handler, the only one that returns success
\* without a child and without a call of handler code
HandlerRan ==
    /\ result' # None
    /\ Get(result').status = "fulfilled"
    /\ (child' # None \/ ~Get(result').value.success)

\* the entry of a handler name in a statistics map
EntryOf(st, n) == IF n \in DOMAIN st THEN st[n] ELSE NewStats

----------------------------------------------------------------------------
(* Claims about the matcher (SpecMatch) *)

\* the matcher check has been made
Checked == history # << >> /\ history[1].op = "matchesFilter"
ThePattern == Get(invocation).handler.matcher
TheTool == Get(invocation).hookData.tool_name

\* the event carries a tool name
CarriesToolName == TheTool # None /\ Get(TheTool) # ""

\* the pattern is absent, "" or "*"
Unconditional == ThePattern \in {None, Some(""), Some("*")}

\* the valid regular expressions of the model with the tool names each one
\* tests true against
RegExpLanguage ==
    [pattern : {"Bash"}, tool : {"Bash", "BashOutput"}]
    \cup [pattern : {"^Bash$"}, tool : {"Bash"}]
    \cup [pattern : {"Edit|Write"}, tool : {"Edit"}]
    \cup [pattern : {".*"}, tool : {"Bash", "BashOutput", "Edit"}]

ValidPatterns == {"Bash", "^Bash$", "Edit|Write", ".*"}
InvalidPatterns == {"[", "*.ts"}

\* C12: for an event that carries a tool name, a pattern that is "", "*" or
\* absent matches unconditionally and any other valid pattern matches exactly
\* when the regular expression tests true against the tool name; for an event
\* without a tool name only "", "*" or an absent pattern match.
C12_Matcher ==
    Checked =>
        IF CarriesToolName
        THEN /\ Unconditional => history[1].matches
             /\ (~Unconditional /\ Get(ThePattern) \in ValidPatterns) =>
                   (history[1].matches <=>
                       [pattern |-> Get(ThePattern), tool |-> Get(TheTool)] \in RegExpLanguage)
        ELSE history[1].matches <=> Unconditional

\* C12, witness: the pattern ^Bash$ has been checked against the tool
\* BashOutput and does not match
C12_Witness ==
    /\ Checked
    /\ ThePattern = Some("^Bash$")
    /\ TheTool = Some("BashOutput")
    /\ ~history[1].matches

----------------------------------------------------------------------------
(* Claims about the statistics (SpecStats) *)

\* the positions of the logged calls that reset the entry of handler n
ResetsOf(n) ==
    {i \in DOMAIN history :
        /\ history[i].op = "resetStats"
        /\ history[i].handlerName \in {None, Some(n)}}

\* the recordExecution calls for handler n since its entry was created: the
\* ones after the last reset of the entry
RecordedSince(n) ==
    {i \in DOMAIN history :
        /\ history[i].op = "recordExecution"
        /\ history[i].handlerName = Some(n)
        /\ \A j \in ResetsOf(n) : j < i}

RECURSIVE SumDurations(_)
SumDurations(idx) ==
    IF idx = {} THEN 0
    ELSE LET i == CHOOSE x \in idx : TRUE
         IN  history[i].duration + SumDurations(idx \ {i})

\* C14: after any sequence of recordExecution and resetStats calls, every
\* handler entry with N >= 1 recorded invocations since its creation, F of
\* them failures and total duration D, has executions = N, failures = F,
\* totalDuration = D, successRate = (N - F) / N * 100 and avgDuration = D / N.
C14_StatsInvariant ==
    \A n \in StatsHandlerNames :
        LET calls == RecordedSince(n)
            N == Cardinality(calls)
            F == Cardinality({i \in calls : ~history[i].success})
            D == SumDurations(calls)
        IN  N >= 1 =>
               /\ n \in DOMAIN stats
               /\ stats[n].executions = N
               /\ stats[n].failures = F
               /\ stats[n].totalDuration = D
               /\ stats[n].successRate[1] * N = (N - F) * 100 * stats[n].successRate[2]
               /\ stats[n].avgDuration[1] * N = D * stats[n].avgDuration[2]

\* C14, witness: h1 was recorded, its entry reset, and h1 recorded again as a
\* failure: the entry counts the one invocation since its creation
C14_Witness ==
    /\ Len(history) = 3
    /\ history[1].op = "recordExecution" /\ history[1].handlerName = Some("h1")
    /\ history[2].op = "resetStats"
    /\ history[3].op = "recordExecution" /\ history[3].handlerName = Some("h1")
    /\ ~history[3].success
    /\ stats["h1"].executions = 1
    /\ stats["h1"].failures = 1
    /\ stats["h1"].successRate = Frac(0, 1)

----------------------------------------------------------------------------
(* Claims about the session override store (SpecSession) *)

\* C15: in every reachable state of the session store, for every session,
\* the force-enabled and the force-disabled name sets are disjoint.
C15_OverrideSetsDisjoint ==
    \A id \in DOMAIN sessions :
        sessions[id].enabledHooks \cap sessions[id].disabledHooks = {}

\* C15, witness: h1 was disabled and then enabled for s1, and is now in the
\* enabled set of s1
C15_Witness ==
    /\ Len(history) >= 2
    /\ history[1] = [op |-> "disableHookForSession", sessionId |-> "s1", hookName |-> "h1"]
    /\ history[2] = [op |-> "enableHookForSession", sessionId |-> "s1", hookName |-> "h1"]
    /\ "s1" \in DOMAIN sessions
    /\ "h1" \in sessions["s1"].enabledHooks

\* the positions of the enable and disable calls for the pair (id, n) since
\* session id was last cleared
WritesSince(id, n) ==
    {i \in DOMAIN history :
        /\ history[i].op \in {"enableHookForSession", "disableHookForSession"}
        /\ history[i].sessionId = id
        /\ history[i].hookName = n
        /\ \A j \in DOMAIN history :
              (history[j].op = "clearSession" /\ history[j].sessionId = id) => j < i}

\* the override the log of calls determines for the pair: the most recent
\* write, or None
LastWrite(id, n) ==
    IF WritesSince(id, n) = {} THEN None
    ELSE LET last == CHOOSE i \in WritesSince(id, n) : \A j \in WritesSince(id, n) : j <= i
         IN  Some(history[last].op = "enableHookForSession")

\* C16: the session override lookup is tri-state with last write wins:
\* isHookEnabledForSession(s, h) is the value of the most recent enable or
\* disable call for (s, h) since the session was last cleared, and undefined
\* when there was none; calls for other sessions or names do not change it.
C16_LastWriteWins ==
    \A id \in SessionIds, n \in SessionHookNames :
        isHookEnabledForSession(sessions, id, n) = LastWrite(id, n)

\* C16, witness: h1 was enabled and then disabled for s1 and then enabled for
\* s2; the lookup answers false for (s1, h1), true for (s2, h1) and
\* undefined for (s1, h2)
C16_Witness ==
    /\ Len(history) = 3
    /\ history[1] = [op |-> "enableHookForSession", sessionId |-> "s1", hookName |-> "h1"]
    /\ history[2] = [op |-> "disableHookForSession", sessionId |-> "s1", hookName |-> "h1"]
    /\ history[3] = [op |-> "enableHookForSession", sessionId |-> "s2", hookName |-> "h1"]
    /\ isHookEnabledForSession(sessions, "s1", "h1") = Some(FALSE)
    /\ isHookEnabledForSession(sessions, "s2", "h1") = Some(TRUE)
    /\ isHookEnabledForSession(sessions, "s1", "h2") = None

----------------------------------------------------------------------------
(* Claims about the configured handler list (SpecConfig) *)

\* C21: handler names are a unique key.  After any sequence of add, remove,
\* update (rename included), enable and disable operations no two entries of
\* the configured handler list have the same name.
C21_HandlerNamesUnique ==
    \A i, j \in DOMAIN handlers :
        i # j => handlers[i].name # handlers[j].name

----------------------------------------------------------------------------
(* Claims about handler resolution (SpecResolve) *)

\* the event and the returned list of the call of resolveHandlers
TheEvent == Get(resolved).hookData
TheList == Get(resolved).handlers
ResolvedNames == {TheList[i].name : i \in DOMAIN TheList}

\* the definition of index i is attached to the event's hook type
Attached(i) == TheEvent.hook_event_name \in handlers[i].hooks

\* C4: every handler returned by resolveHandlers(event) has the event's hook
\* type in its hook-type set, in every state of the session and project
\* override stores (also when a session override force-enables it).
C4_ResolvedHandlersMatchHook ==
    resolved # None =>
        \A i \in DOMAIN TheList : TheEvent.hook_event_name \in TheList[i].hooks

\* the session of the event names handler n in its enabled / disabled set
SessionEnables(n) ==
    /\ TheEvent.session_id \in DOMAIN sessions
    /\ n \in sessions[TheEvent.session_id].enabledHooks
SessionDisables(n) ==
    /\ TheEvent.session_id \in DOMAIN sessions
    /\ n \in sessions[TheEvent.session_id].disabledHooks

\* the loaded project configuration names handler n in its enabled / disabled list
ProjectEnables(n) ==
    /\ projectConfig # None
    /\ Get(projectConfig).hooks # None
    /\ Get(Get(projectConfig).hooks).enabled # None
    /\ n \in Get(Get(Get(projectConfig).hooks).enabled)
ProjectDisables(n) ==
    /\ projectConfig # None
    /\ Get(projectConfig).hooks # None
    /\ Get(Get(projectConfig).hooks).disabled # None
    /\ n \in Get(Get(Get(projectConfig).hooks).disabled)

\* session > project > global
EffectiveEnabled(h) ==
    IF SessionDisables(h.name) \/ SessionEnables(h.name)
    THEN ~SessionDisables(h.name)
    ELSE IF ProjectDisables(h.name) \/ ProjectEnables(h.name)
         THEN ~ProjectDisables(h.name)
         ELSE h.enabled

\* C5: effective-enabled follows the strict precedence session > project >
\* global.  A handler attached to the event's hook type is resolved exactly
\* when the session override says so if the session has one, otherwise when
\* the include/exclude lists of the loaded project configuration say so if
\* they name it, otherwise when its own enabled flag is set.
C5_Precedence ==
    resolved # None =>
        \A i \in DOMAIN handlers :
            Attached(i) =>
                (handlers[i].name \in ResolvedNames <=> EffectiveEnabled(handlers[i]))

\* C5, witness: h2 is globally disabled and in the include list of the
\* loaded project; the event's session disables it and it is not resolved,
\* while the other session of the store has no override for it
C5_Witness ==
    /\ resolved # None
    /\ TheEvent.hook_event_name = "PreToolUse"
    /\ ~handlers[2].enabled
    /\ ProjectEnables("h2")
    /\ SessionDisables("h2")
    /\ "h2" \notin ResolvedNames
    /\ "h3" \in ResolvedNames

\* the event's cwd has no project.json up to the root, or one that does not parse
NoProjectFile(hd) ==
    /\ IsSome(hd.cwd)
    /\ \/ findProjectConfig(Get(hd.cwd)) = None
       \/ ~ProjectFiles[Get(findProjectConfig(Get(hd.cwd)))].ok

\* C10: a malformed or missing project override file is treated as "no
\* project overrides".  When resolveHandlers runs for an event whose cwd has
\* no, or an unparsable, project.json, the lists and field overrides loaded
\* for an earlier event do not apply: the list is the one resolved from the
\* session overrides and the global definitions alone.
C10_MissingFileMeansNoOverrides ==
    (resolved # None /\ NoProjectFile(TheEvent)) =>
        TheList = resolveFrom(handlers, 1, TheEvent, sessions, None)

\* the names of a list of handlers, in its order
RECURSIVE NamesOf(_)
NamesOf(list) ==
    IF list = << >> THEN << >> ELSE <<Head(list).name>> \o NamesOf(Tail(list))

\* sub is seq with some of its elements left out
RECURSIVE IsSubsequence(_, _)
IsSubsequence(sub, seq) ==
    IF sub = << >> THEN TRUE
    ELSE IF seq = << >> THEN FALSE
    ELSE IF Head(sub) = Head(seq) THEN IsSubsequence(Tail(sub), Tail(seq))
    ELSE IsSubsequence(sub, Tail(seq))

\* C24: the list returned by resolveHandlers is a subsequence of the global
\* definition list: the resolved handlers come in the order of the
\* configuration, and each definition is returned at most once.
C24_ResolvedIsSubsequence ==
    resolved # None =>
        /\ IsSubsequence(NamesOf(TheList), NamesOf(handlers))
        /\ \A i, j \in DOMAIN TheList : i # j => TheList[i].name # TheList[j].name

\* C24, witness: h1 and h3 are returned in this order and h2, which lies
\* between them in the configuration, is not
C24_Witness ==
    /\ resolved # None
    /\ NamesOf(handlers) = <<"h1", "h2", "h3">>
    /\ NamesOf(TheList) = <<"h1", "h3">>

\* the field overrides of handler n in the loaded project configuration
HasProjectOverride(n) ==
    /\ projectConfig # None
    /\ Get(projectConfig).hooks # None
    /\ Get(Get(projectConfig).hooks).overrides # None
    /\ n \in DOMAIN Get(Get(Get(projectConfig).hooks).overrides)
ProjectOverride(n) == Get(Get(Get(projectConfig).hooks).overrides)[n]

\* the stored definition of the name
DefinitionOf(n) == handlers[CHOOSE i \in DOMAIN handlers : handlers[i].name = n]

\* C25: project field overrides are layered, never stored.  A returned
\* handler with a project-level override equals its definition with each
\* overridden field replaced by the override's value, a returned handler
\* without one is its definition, and the stored global definitions are the
\* ones of the configuration, unchanged by resolveHandlers.
C25_OverridesAreLayered ==
    /\ handlers = ConfigHandlers
    /\ resolved # None =>
          \A i \in DOMAIN TheList :
              LET h   == TheList[i]
                  def == DefinitionOf(h.name)
              IN  IF HasProjectOverride(h.name)
                  THEN /\ DOMAIN h = DOMAIN def \cup DOMAIN ProjectOverride(h.name)
                       /\ \A f \in DOMAIN h :
                            h[f] = IF f \in DOMAIN ProjectOverride(h.name)
                                   THEN ProjectOverride(h.name)[f]
                                   ELSE def[f]
                  ELSE h = def

\* C25, witness: h2 is returned with the matcher of the project's override,
\* and its stored definition still has no matcher
C25_Witness ==
    /\ resolved # None
    /\ HasProjectOverride("h2")
    /\ \E i \in DOMAIN TheList :
          /\ TheList[i].name = "h2"
          /\ TheList[i].matcher = Some("Bash")
          /\ TheList[i].command = handlers[2].command
    /\ handlers[2].name = "h2"
    /\ handlers[2].matcher = None

\* C26: in the project layer exclude takes precedence over include.  A
\* handler named in both the disabled and the enabled list of the loaded
\* project configuration is project-disabled whatever its global enabled
\* flag, and is not resolved unless the session of the event enables it.
C26_ExcludeOverInclude ==
    \A n \in HandlerNames :
        (ProjectDisables(n) /\ ProjectEnables(n)) =>
            /\ \A globalEnabled \in BOOLEAN :
                  ~isHandlerEnabled(projectConfig, n, globalEnabled)
            /\ (resolved # None /\ ~SessionEnables(n)) => n \notin ResolvedNames

\* C26, witness: h3 is globally enabled, attached to the event's hook type
\* and named in both lists of the loaded project; the session has no
\* override for it and it is not resolved
C26_Witness ==
    /\ resolved # None
    /\ ProjectDisables("h3")
    /\ ProjectEnables("h3")
    /\ handlers[3].name = "h3"
    /\ handlers[3].enabled
    /\ Attached(3)
    /\ ~SessionEnables("h3")
    /\ ~SessionDisables("h3")
    /\ "h3" \notin ResolvedNames
    /\ "h1" \in ResolvedNames

----------------------------------------------------------------------------
(* Claims about the aggregation of results (SpecHooks) *)

Responded == request # None /\ Get(request).phase = "responded"
Req == Get(request)
Body == Get(Req.response).body
Entries == Get(Req.response).processed.results
Promise(i) == Get(Req.settled[i]).promise

\* handler i of the request returned a blocking result
Blocks(i) == Promise(i).status = "fulfilled" /\ Promise(i).value.blockExecution
Blockers == {i \in DOMAIN Req.handlers : Blocks(i)}
FirstBlocker == CHOOSE i \in Blockers : \A j \in Blockers : i <= j

\* C6: when several handlers of one event block, the first blocking result
\* in resolution order supplies the blocking handler name and the
\* user-facing reason of the aggregate decision.
C6_FirstBlockerReported ==
    (Responded /\ Blockers # {}) =>
        /\ Body.blockingHandler = Some(Req.handlers[FirstBlocker].name)
        /\ Body.reason = IF IsSome(Promise(FirstBlocker).value.response)
                         THEN Get(Promise(FirstBlocker).value.response).reason
                         ELSE None

\* the entry the aggregate must hold for handler i, from i's own promise
OwnEntry(i) ==
    IF Promise(i).status = "fulfilled"
    THEN Promise(i).value
    ELSE [NewResult(Req.handlers[i]) EXCEPT !.error = Some(Promise(i).reason)]

\* the result of handler i follows from what its own child did
OwnOutcome(i) ==
    Promise(i).status = "fulfilled" =>
        Promise(i).value =
            [executeOutcome(Req.handlers[i], Req.hookData, Get(Get(Req.settled[i]).outcome))
                EXCEPT !.duration = Promise(i).value.duration]

\* C7: the aggregator returns only after every resolved handler has settled;
\* for an event resolving to N handlers the aggregate has exactly N entries,
\* one per handler in resolution order, whatever subset of the handlers
\* fails, errors, blocks or rejects, and each entry is the result of the
\* handler's own execution.
C7_AllResultsKept ==
    Responded =>
        /\ \A i \in DOMAIN Req.handlers : Req.settled[i] # None
        /\ Len(Entries) = Len(Req.handlers)
        /\ Body.handlers = Len(Req.handlers)
        /\ \A i \in DOMAIN Req.handlers :
              /\ Entries[i].handler = Req.handlers[i].name
              /\ Entries[i] = OwnEntry(i)
              /\ OwnOutcome(i)

\* C7, witness: three handlers were resolved, the second failed to spawn,
\* the promise of the third rejected and the first succeeded; the aggregate
\* has three entries and is not blocked
C7_Witness ==
    /\ Responded
    /\ Len(Req.handlers) = 3
    /\ Promise(1).status = "fulfilled" /\ Promise(1).value.success
    /\ Promise(2).status = "fulfilled" /\ IsSome(Promise(2).value.error)
    /\ Promise(3).status = "rejected"
    /\ Len(Entries) = 3
    /\ Body.success

\* C8: the overall decision is blocked if and only if at least one handler
\* result has blockExecution true; failures and errors that do not block
\* never make the decision blocked.
C8_BlockedIffSomeBlock ==
    Responded =>
        /\ Body.blocked <=> Blockers # {}
        /\ Body.success <=> Blockers = {}

\* C8, witness: one handler failed with exit code 1, another could not be
\* spawned, none blocked, and the decision is not blocked
C8_Witness ==
    /\ Responded
    /\ \E i, j \in DOMAIN Req.handlers :
          /\ Promise(i).status = "fulfilled"
          /\ Promise(i).value.exitCode = Some(EXIT_CODE_ERROR)
          /\ ~Promise(i).value.success
          /\ Promise(j).status = "fulfilled"
          /\ IsSome(Promise(j).value.error)
    /\ Blockers = {}
    /\ ~Body.blocked
    /\ Body.success

\* handler i returned a successful result with a non-empty output
HasOutput(i) ==
    /\ Promise(i).status = "fulfilled"
    /\ Promise(i).value.success
    /\ IsSome(Promise(i).value.output)
    /\ trim(Get(Promise(i).value.output)) # EmptyText

\* the outputs of the handlers i.. in resolution order, joined by the separator
RECURSIVE ExpectedOutput(_)
ExpectedOutput(i) ==
    IF i > Len(Req.handlers) THEN EmptyText
    ELSE IF ~HasOutput(i) THEN ExpectedOutput(i + 1)
    ELSE IF \E j \in (i + 1)..Len(Req.handlers) : HasOutput(j)
         THEN trim(Get(Promise(i).value.output)) \o <<WS, WS>> \o ExpectedOutput(i + 1)
         ELSE trim(Get(Promise(i).value.output))

\* C9: within one event the aggregated output is the concatenation, with the
\* fixed separator, of the non-empty outputs of the successful handlers in
\* resolution order, for every order in which the handlers complete.
C9_OutputInResolutionOrder ==
    Responded =>
        Body.output = IF \E i \in DOMAIN Req.handlers : HasOutput(i)
                      THEN Some(ExpectedOutput(1))
                      ELSE None

\* C9, witness: two handlers with output completed in the reverse of the
\* resolution order, and the output lists them in resolution order
C9_Witness ==
    /\ Responded
    /\ Len(Req.handlers) = 3
    /\ Req.order = <<3, 2, 1>>
    /\ HasOutput(1) /\ HasOutput(3) /\ ~HasOutput(2)
    /\ Body.output = Some(<<Word("out-h1"), WS, WS, Word("out-h3")>>)

----------------------------------------------------------------------------
(* Claims about the shared statistics file (SpecSharedStats) *)

\* the executions the file holds for handler n
PersistedExecutions(n) ==
    IF n \in DOMAIN statsFile THEN statsFile[n].executions ELSE 0

\* C30: statistics survive concurrent writers.  With the server and CLI
\* processes over one handler-stats.json, the persisted executions of every
\* handler equal the number of executions recorded for it by all processes
\* since its last reset: no reset is undone and no record lost by the other
\* process's next write.
C30_SharedFileCountsAll ==
    \A n \in StatsHandlerNames :
        PersistedExecutions(n) = Cardinality(RecordedSince(n))

====
